---- MODULE Spec2Model ----
(***************************************************************************)
(* A model of the step-driven, multi-threaded IR interpreter               *)
(* (llvm/lib/ExecutionEngine/Interpreter) that delegates memory effects    *)
(* and external calls to an oracle through hooks.                          *)
(*                                                                         *)
(* The interpreted module is a small fixed IR module (Module below) whose  *)
(* functions exercise calls (internal, external declaration, by pointer),  *)
(* invokes, phi nodes, allocas and returns.  The driver is the             *)
(* environment: it calls createThread, stepThread and terminateThread in   *)
(* any order with any of the enumerated arguments.                         *)
(***************************************************************************)
EXTENDS Integers, Sequences, FiniteSets, TLC

\* Bound on the number of createThread calls the driver issues in one run.
MaxCreates == 2

\* Thread identifiers the driver uses.
ThreadIDs == {1, 2}

\* Bound on the number of emitGlobals calls followed in one run.
MaxEmits == 3

VARIABLES
    Threads,          \* Interpreter::Threads: thread id -> ExecutionThread
    CurrentThreadID,  \* Interpreter::CurrentThreadID
    lastHooks,        \* the hook calls the oracle received during the last call
    live,             \* oracle state: the pointers malloc'ed and not yet freed
    badFree,          \* oracle state: the free hook received a pointer not live
    creates,          \* number of createThread and runFunction calls so far
    fatal,            \* report_fatal_error was called: the process is gone
    undefined,        \* undefined behaviour was executed
    reverseDestroy,   \* build property: std::vector destroys elements back to front
    lastCall,         \* the last driver call, its arguments and its result
    MiriErrorFlag,    \* ExecutionEngine's latched Miri error flag
    StackTrace,       \* Interpreter::StackTrace
    mem,              \* oracle state: what was stored through each live pointer
    running,          \* a runFunction call is inside run()
    pureIn,           \* operands handed to an instruction evaluated on its own
    pureOut,          \* its result
    MiriWrapper,      \* ExecutionEngine::MiriWrapper, 0 the null pointer
    emitGlobalsCalls  \* number of emitGlobals() calls so far

vars == <<Threads, CurrentThreadID, lastHooks, live, badFree, creates, fatal,
          undefined, reverseDestroy, lastCall, MiriErrorFlag, StackTrace, mem,
          running, pureIn, pureOut, MiriWrapper, emitGlobalsCalls>>

-----------------------------------------------------------------------------
(* GenericValue *)

NULL_PROVENANCE == [alloc_id |-> 0, tag |-> 0]

\* GenericValue(): IntVal(1, 0), zeroed payload, null provenance, no type.
\* The members of the payload union are kept apart: the pointer, the
\* float or double (a number here) and the pair of unsigned ints.
GenericValue ==
    [ValueTy |-> "", IntVal |-> 0, BitWidth |-> 1, PointerVal |-> 0,
     Provenance |-> NULL_PROVENANCE, DoubleVal |-> 0, UIntPairVal |-> <<0, 0>>]

\* An APInt of the given width.  Values in this model stay below 2^30, so a
\* width above 30 bits never wraps here.
APInt(w, v) == IF w <= 30 THEN v % (2 ^ w) ELSE v

IntGV(w, v) == [GenericValue EXCEPT !.IntVal = APInt(w, v), !.BitWidth = w]

\* MiriPointerTOGV: address in the pointer payload, provenance kept beside it.
MiriPointerTOGV(P) ==
    [GenericValue EXCEPT !.PointerVal = P.addr, !.Provenance = P.prov]

GVTOMiriPointer(GV) == [addr |-> GV.PointerVal, prov |-> GV.Provenance]

GVTOP(GV) == GV.PointerVal

-----------------------------------------------------------------------------
(* Integer instructions on APInt operands.  An APInt is the sequence of its
   bits, least significant first; its width is the length. *)

\* The APInt of width w holding the number n; the numbers of this model
\* stay below 2^31.
NatBits(w, n) ==
    [i \in 1..w |-> IF i > 31 THEN 0 ELSE (n \div (2 ^ (i - 1))) % 2] \o <<>>

\* The APInt of width w whose set bits are the positions in S (0 = lowest).
BitsAt(w, S) == [i \in 1..w |-> IF (i - 1) \in S THEN 1 ELSE 0]

\* APInt::getZExtValue, of a value that fits the numbers of this model: the
\* bits lo..hi as a number, the upper half weighed above the lower.
RECURSIVE ZExtRange(_, _, _)
ZExtUpper(x, mid, hi, k) ==
    IF \A i \in (mid + 1)..hi : x[i] = 0 THEN 0
    ELSE (2 ^ k) * ZExtRange(x, mid + 1, hi)

ZExtRange(x, lo, hi) ==
    IF lo > hi THEN 0
    ELSE IF lo = hi THEN x[lo]
    ELSE ZExtRange(x, lo, (lo + hi) \div 2)
         + ZExtUpper(x, (lo + hi) \div 2, hi, (lo + hi) \div 2 - lo + 1)

getZExtValue(x) == ZExtRange(x, 1, Len(x))

\* An integer GenericValue, and a vector of them.
BitsGV(x) == [IntVal |-> x, AggregateVal |-> <<>>]

VectorGV(lanes) == [IntVal |-> <<0>>, AggregateVal |-> lanes]

\* uint64_t A & B and A | B, on the numbers of this model.
RECURSIVE BitAnd(_, _)
BitAnd(A, B) ==
    IF A = 0 \/ B = 0 THEN 0
    ELSE (A % 2) * (B % 2) + 2 * BitAnd(A \div 2, B \div 2)

RECURSIVE BitOr(_, _)
BitOr(A, B) ==
    IF A = 0 THEN B
    ELSE IF B = 0 THEN A
    ELSE (IF A % 2 = 1 \/ B % 2 = 1 THEN 1 ELSE 0)
         + 2 * BitOr(A \div 2, B \div 2)

\* A |= (A >> k); the numbers here stay below 2^30, so a shift by 30 or
\* more leaves nothing.
OrShift(A, k) == BitOr(A, IF k >= 30 THEN 0 ELSE A \div (2 ^ k))

\* llvm::NextPowerOf2: the next power of two strictly greater than A.
NextPowerOf2(A) ==
    OrShift(OrShift(OrShift(OrShift(OrShift(OrShift(A, 1), 2), 4), 8), 16), 32)
    + 1

\* A shift amount handed to APInt as it came.
getShiftAmountRaw(orgShiftAmount, valueWidth) == orgShiftAmount

\* getShiftAmount(orgShiftAmount, valueToShift)
getShiftAmount(orgShiftAmount, valueWidth) ==
    IF orgShiftAmount < valueWidth THEN orgShiftAmount
    ELSE BitAnd(NextPowerOf2(valueWidth - 1) - 1, orgShiftAmount)

\* APInt::shl, lshr, ashr.  An amount above the width fails their assertion;
\* without assertions the bits go the same way.
APshl(x, n) == [i \in 1..Len(x) |-> IF i - n >= 1 THEN x[i - n] ELSE 0]

APlshr(x, n) == [i \in 1..Len(x) |-> IF i + n <= Len(x) THEN x[i + n] ELSE 0]

APashr(x, n) ==
    [i \in 1..Len(x) |-> IF i + n <= Len(x) THEN x[i + n] ELSE x[Len(x)]]

APShift(op, x, n) ==
    CASE op = "shl" -> APshl(x, n)
      [] op = "lshr" -> APlshr(x, n)
      [] op = "ashr" -> APashr(x, n)

\* One lane of visitShl / visitLShr / visitAShr.
shiftLane(op, valueToShift, shiftAmount) ==
    [IntVal |-> APShift(op, valueToShift,
                        getShiftAmount(shiftAmount, Len(valueToShift))),
     AggregateVal |-> <<>>,
     amount |-> getShiftAmount(shiftAmount, Len(valueToShift))]

\* visitShl, visitLShr, visitAShr: lane by lane for a vector type.
visitShift(op, Src1, Src2, isVectorTy) ==
    IF isVectorTy
    THEN VectorGV([i \in 1..Len(Src1.AggregateVal) |->
                      shiftLane(op, Src1.AggregateVal[i].IntVal,
                                getZExtValue(Src2.AggregateVal[i].IntVal))])
    ELSE shiftLane(op, Src1.IntVal, getZExtValue(Src2.IntVal))

\* The lanes of a result, a scalar being its own single lane.
Lanes(GV) == IF GV.AggregateVal = <<>> THEN <<GV>> ELSE GV.AggregateVal

\* Some shift reached APInt with an amount above the width.
Overshift(Dest) ==
    \E i \in 1..Len(Lanes(Dest)) :
        Lanes(Dest)[i].amount > Len(Lanes(Dest)[i].IntVal)

\* APInt works word by word and carries between the words; a word here is
\* fifteen bits, the last word of a value what is left of its width.
WordAt(a, i) ==
    ZExtRange(a, i, IF i + 14 <= Len(a) THEN i + 14 ELSE Len(a))

WordLen(a, i) == IF i + 14 <= Len(a) THEN 15 ELSE Len(a) - i + 1

RECURSIVE AddFrom(_, _, _, _)
AddWord(a, b, i, sum) ==
    NatBits(WordLen(a, i), sum)
    \o AddFrom(a, b, sum \div (2 ^ WordLen(a, i)), i + 15)

AddFrom(a, b, carry, i) ==
    IF i > Len(a) THEN <<>>
    ELSE AddWord(a, b, i, WordAt(a, i) + WordAt(b, i) + carry)

\* APInt operator+, operator-, operator*: modulo 2^width.
APAdd(a, b) == AddFrom(a, b, 0, 1)

APNot(a) == [i \in 1..Len(a) |-> 1 - a[i]]

APSub(a, b) == AddFrom(a, APNot(b), 1, 1)

\* a times one word m
RECURSIVE MulWordFrom(_, _, _, _)
MulWordStep(a, m, i, prod) ==
    NatBits(WordLen(a, i), prod)
    \o MulWordFrom(a, m, prod \div (2 ^ WordLen(a, i)), i + 15)

MulWordFrom(a, m, carry, i) ==
    IF i > Len(a) THEN <<>>
    ELSE MulWordStep(a, m, i, WordAt(a, i) * m + carry)

\* The partial products of a with the words lo..hi of b, summed in halves.
RECURSIVE MulRange(_, _, _, _)
MulRange(a, b, lo, hi) ==
    IF lo = hi
    THEN APshl(MulWordFrom(a, WordAt(b, 15 * (lo - 1) + 1), 0, 1),
               15 * (lo - 1))
    ELSE APAdd(MulRange(a, b, lo, (lo + hi) \div 2),
               MulRange(a, b, (lo + hi) \div 2 + 1, hi))

APMul(a, b) == MulRange(a, b, 1, (Len(b) + 14) \div 15)

\* APInt::ult, from the highest word down
RECURSIVE ultFrom(_, _, _)
ultFrom(a, b, i) ==
    IF i < 1 THEN FALSE
    ELSE IF WordAt(a, i) # WordAt(b, i) THEN WordAt(a, i) < WordAt(b, i)
    ELSE ultFrom(a, b, i - 15)

APult(a, b) == ultFrom(a, b, 15 * ((Len(a) - 1) \div 15) + 1)

\* APInt::udiv and urem by long division, a bit of the dividend at a time
\* from the highest down: the remainder is kept one bit wider than the
\* operands while it is shifted.
DivTake(q, r, d, i) ==
    IF APult(r, d) THEN [q |-> q, r |-> r]
    ELSE [q |-> [q EXCEPT ![i] = 1], r |-> APSub(r, d)]

DivBit(a, d, i, qr) ==
    DivTake(qr.q, <<a[i]>> \o SubSeq(qr.r, 1, Len(qr.r) - 1), d, i)

\* The bits hi down to lo of the dividend, taken in halves: the upper half
\* is worked out (the test on its quotient sees to that) before the lower.
RECURSIVE DivRange(_, _, _, _, _)
DivLower(a, d, hi, lo, qr) ==
    IF Len(qr.q) = 0 THEN qr ELSE DivRange(a, d, hi, lo, qr)

DivRange(a, d, hi, lo, qr) ==
    IF hi = lo THEN DivBit(a, d, hi, qr)
    ELSE DivLower(a, d, (hi + lo) \div 2, lo,
                  DivRange(a, d, hi, (hi + lo) \div 2 + 1, qr))

udivrem(a, b) ==
    DivRange(a, b \o <<0>>, Len(a), 1,
             [q |-> BitsAt(Len(a), {}), r |-> BitsAt(Len(a) + 1, {})])

APudiv(a, b) == udivrem(a, b).q

APurem(a, b) == SubSeq(udivrem(a, b).r, 1, Len(a))

\* A switch whose every opcode adds.
binaryOperatorAllAdd(Opcode, Src1, Src2) ==
    BitsGV(APAdd(Src1.IntVal, Src2.IntVal))

\* The scalar switch of visitBinaryOperator, its integer opcodes used here.
binaryOperator(Opcode, Src1, Src2) ==
    CASE Opcode = "add" -> BitsGV(APAdd(Src1.IntVal, Src2.IntVal))
      [] Opcode = "sub" -> BitsGV(APSub(Src1.IntVal, Src2.IntVal))
      [] Opcode = "mul" -> BitsGV(APMul(Src1.IntVal, Src2.IntVal))
      [] Opcode = "udiv" -> BitsGV(APudiv(Src1.IntVal, Src2.IntVal))
      [] Opcode = "urem" -> BitsGV(APurem(Src1.IntVal, Src2.IntVal))

\* APInt::zext, sext, trunc and operator|.
APzext(x, width) == x \o [i \in 1..(width - Len(x)) |-> 0]

APsext(x, width) == x \o [i \in 1..(width - Len(x)) |-> x[Len(x)]]

APtrunc(x, width) == SubSeq(x, 1, width)

APOr(a, b) == [i \in 1..Len(a) |-> IF a[i] = 1 \/ b[i] = 1 THEN 1 ELSE 0]

\* APInt::getLimitedValue(Limit), for a limit among the numbers of this model.
getLimitedValue(x, Limit) ==
    IF \E i \in 31..Len(x) : x[i] = 1 THEN Limit
    ELSE IF getZExtValue(x) > Limit THEN Limit
    ELSE getZExtValue(x)

\* operator|(uint64_t, APInt): the number is cut to the APInt's width.
APOrWord(LHS, b) == APOr(NatBits(Len(b), LHS), b)

\* APInt::operator<<=(const APInt &): the amount is limited to the width.
APshlAssign(x, shiftAmt) == APshl(x, getLimitedValue(shiftAmt, Len(x)))

\* rotateModulo: the amount, extended to 32 bits at least, modulo the width.
rotateModulo(BitWidth, rotateAmt) ==
    IF Len(rotateAmt) < 32
    THEN getZExtValue(APurem(APzext(rotateAmt, 32), NatBits(32, BitWidth)))
    ELSE getZExtValue(APurem(rotateAmt, NatBits(Len(rotateAmt), BitWidth)))

\* APInt::rotl and rotr by a number below the width.
RotateLeft(x, r) == [i \in 1..Len(x) |-> x[((i - 1 - r) % Len(x)) + 1]]

RotateRight(x, r) == [i \in 1..Len(x) |-> x[((i - 1 + r) % Len(x)) + 1]]

AProtl(x, rotateAmt) == RotateLeft(x, rotateModulo(Len(x), rotateAmt))

AProtr(x, rotateAmt) == RotateRight(x, rotateModulo(Len(x), rotateAmt))

\* executeIntrinsicFshIntInst.  Src1 is the function's own copy of the
\* operand; `Src1.IntVal <<= bitWidth | Src2.IntVal` shifts it by the amount
\* bitWidth | Src2.IntVal, and concat is a copy of what is left.
fshConcat(Src1, Src2) ==
    APshlAssign(Src1.IntVal, APOrWord(Len(Src1.IntVal), Src2.IntVal))

executeIntrinsicFshIntInst(Src1, Src2, Src3, isLeft) ==
    IF isLeft
    THEN BitsGV(AProtl(fshConcat(Src1, Src2), Src3.IntVal))
    ELSE BitsGV(AProtr(fshConcat(Src1, Src2), Src3.IntVal))

-----------------------------------------------------------------------------
(* The interpreted IR module *)

\* Operands: constant integers, SSA values (instructions and arguments) and
\* function references.
CInt(v)   == [k |-> "c", v |-> v, n |-> "", ty |-> "i32"]
CFP(v)    == [k |-> "c", v |-> v, n |-> "", ty |-> "double"]
Val(n, ty) == [k |-> "v", v |-> 0, n |-> n, ty |-> ty]
Fn(f)     == [k |-> "f", v |-> 0, n |-> f, ty |-> "ptr"]

Instr(id, op, ty, ops, callee, dests, preds) ==
    [id |-> id, op |-> op, ty |-> ty, ops |-> ops, callee |-> callee,
     dests |-> dests, preds |-> preds]

Add(id, a, b)      == Instr(id, "add", "i32", <<a, b>>, CInt(0), <<>>, <<>>)
ICmpEq(id, a, b)   == Instr(id, "icmp", "i1", <<a, b>>, CInt(0), <<>>, <<>>)
Ret(id, a)         == Instr(id, "ret", "void", <<a>>, CInt(0), <<>>, <<>>)
RetVoid(id)        == Instr(id, "ret", "void", <<>>, CInt(0), <<>>, <<>>)
Br(id, d)          == Instr(id, "br", "void", <<>>, CInt(0), <<d>>, <<>>)
CondBr(id, c, t, f) == Instr(id, "br", "void", <<c>>, CInt(0), <<t, f>>, <<>>)
Phi(id, ty, ops, preds) == Instr(id, "phi", ty, ops, CInt(0), <<>>, preds)
Call(id, ty, callee, args) == Instr(id, "call", ty, args, callee, <<>>, <<>>)
Invoke(id, ty, callee, args, normal, unwind) ==
    Instr(id, "invoke", ty, args, callee, <<normal, unwind>>, <<>>)
Alloca(id, n)      == Instr(id, "alloca", "ptr", <<n>>, CInt(0), <<>>, <<>>)
Load(id, ty, p)    == Instr(id, "load", ty, <<p>>, CInt(0), <<>>, <<>>)
Store(id, v, p)    == Instr(id, "store", "void", <<v, p>>, CInt(0), <<>>, <<>>)
\* Calls of the intrinsics fshl, fshr, fabs, fmuladd, and the va_list
\* instructions.
Intrinsic(id, ty, name, args) == Instr(id, name, ty, args, CInt(0), <<>>, <<>>)
VAStart(id, p)     == Instr(id, "va_start", "void", <<p>>, CInt(0), <<>>, <<>>)
VACopy(id, d, s)   == Instr(id, "va_copy", "void", <<d, s>>, CInt(0), <<>>, <<>>)
VAArg(id, ty, p)   == Instr(id, "va_arg", ty, <<p>>, CInt(0), <<>>, <<>>)

Func(isDecl, params, retTy, blocks) ==
    [isDeclaration |-> isDecl, params |-> params, retTy |-> retTy,
     blocks |-> blocks]

Module ==
    [ \* i32 @main(): %m.s = add i32 2, 3 ; ret i32 %m.s
      main |-> Func(FALSE, <<>>, "i32",
        << << Add("m.s", CInt(2), CInt(3)),
              Ret("m.ret", Val("m.s", "i32")) >> >>),
      \* i32 @retc(i32 %retc.p): ret i32 %retc.p
      retc |-> Func(FALSE, <<Val("retc.p", "i32")>>, "i32",
        << << Ret("retc.ret", Val("retc.p", "i32")) >> >>),
      \* declarations handled by the oracle
      ext  |-> Func(TRUE, <<Val("ext.p", "i32")>>, "i32", <<>>),
      vext |-> Func(TRUE, <<>>, "void", <<>>),
      \* i32 @work(i32 %w.p): internal call, external calls, add, ret
      work |-> Func(FALSE, <<Val("w.p", "i32")>>, "i32",
        << << Call("w.r", "i32", Fn("retc"), <<Val("w.p", "i32")>>),
              Call("w.e", "i32", Fn("ext"), <<CInt(1)>>),
              Call("w.v", "void", Fn("vext"), <<>>),
              Add("w.t", Val("w.r", "i32"), Val("w.e", "i32")),
              Ret("w.ret", Val("w.t", "i32")) >> >>),
      \* i32 @ind(ptr %i.p): call through a pointer carrying provenance
      ind |-> Func(FALSE, <<Val("i.p", "ptr")>>, "i32",
        << << Call("i.q", "i32", Val("i.p", "ptr"), <<CInt(7)>>),
              Call("i.v", "void", Val("i.p", "ptr"), <<>>),
              Ret("i.ret", Val("i.q", "i32")) >> >>),
      \* i32 @inv(): invoke of a declaration, then invoke of a function with
      \* a body; both normal destinations start with a phi of the result
      inv |-> Func(FALSE, <<>>, "i32",
        << << Invoke("v.x", "i32", Fn("ext"), <<CInt(1)>>, 2, 4) >>,
           << Phi("v.a", "i32", <<Val("v.x", "i32")>>, <<1>>),
              Invoke("v.y", "i32", Fn("retc"), <<Val("v.a", "i32")>>, 3, 4) >>,
           << Phi("v.c", "i32", <<Val("v.y", "i32")>>, <<2>>),
              Ret("v.ret", Val("v.c", "i32")) >>,
           << RetVoid("v.unw") >> >>),
      \* i32 @phis(): a loop whose phis name each other
      phis |-> Func(FALSE, <<>>, "i32",
        << << Br("p.br0", 2) >>,
           << Phi("p.a", "i32", <<CInt(1), Val("p.b", "i32")>>, <<1, 2>>),
              Phi("p.b", "i32", <<CInt(2), Val("p.a", "i32")>>, <<1, 2>>),
              Phi("p.n", "i32", <<CInt(0), Val("p.n1", "i32")>>, <<1, 2>>),
              Add("p.n1", Val("p.n", "i32"), CInt(1)),
              ICmpEq("p.c", Val("p.n1", "i32"), CInt(2)),
              CondBr("p.br1", Val("p.c", "i1"), 3, 2) >>,
           << Ret("p.ret", Val("p.b", "i32")) >> >>),
      \* void @allocs(): two allocas, a call to a function that allocates
      allocs |-> Func(FALSE, <<>>, "void",
        << << Alloca("a.m1", CInt(1)),
              Alloca("a.m2", CInt(1)),
              Call("a.call", "void", Fn("leaf"), <<>>),
              RetVoid("a.ret") >> >>),
      \* void @leaf(): two allocas and return
      leaf |-> Func(FALSE, <<>>, "void",
        << << Alloca("l.m1", CInt(1)),
              Alloca("l.m2", CInt(1)),
              RetVoid("l.ret") >> >>),
      \* i32 @slot(): alloca, store 7, load, return what was loaded
      slot |-> Func(FALSE, <<>>, "i32",
        << << Alloca("s.p", CInt(1)),
              Store("s.st", CInt(7), Val("s.p", "ptr")),
              Load("s.v", "i32", Val("s.p", "ptr")),
              Ret("s.ret", Val("s.v", "i32")) >> >>),
      \* void @bad1(ptr) -> @bad2(ptr) -> @bad3(ptr): the innermost function
      \* stores and loads through the pointer it was given
      bad1 |-> Func(FALSE, <<Val("b1.p", "ptr")>>, "void",
        << << Call("b1.c", "void", Fn("bad2"), <<Val("b1.p", "ptr")>>),
              RetVoid("b1.ret") >> >>),
      bad2 |-> Func(FALSE, <<Val("b2.p", "ptr")>>, "void",
        << << Call("b2.c", "void", Fn("bad3"), <<Val("b2.p", "ptr")>>),
              RetVoid("b2.ret") >> >>),
      bad3 |-> Func(FALSE, <<Val("b3.p", "ptr")>>, "i32",
        << << Store("b3.st", CInt(1), Val("b3.p", "ptr")),
              Load("b3.ld", "i32", Val("b3.p", "ptr")),
              Ret("b3.ret", Val("b3.ld", "i32")) >> >>),
      \* i32 @intr(): intrinsic calls between ordinary instructions
      intr |-> Func(FALSE, <<>>, "i32",
        << << Intrinsic("x.l", "i32", "fshl", <<CInt(1), CInt(2), CInt(3)>>),
              Add("x.s", CInt(1), CInt(1)),
              Intrinsic("x.a", "double", "fabs", <<CFP(-2)>>),
              Intrinsic("x.m", "double", "fmuladd",
                        <<Val("x.a", "double"), CFP(3), CFP(1)>>),
              Intrinsic("x.r", "i32", "fshr",
                        <<Val("x.l", "i32"), CInt(1), CInt(1)>>),
              Add("x.t", Val("x.s", "i32"), CInt(5)),
              Add("x.u", Val("x.t", "i32"), CInt(1)),
              Ret("x.ret", Val("x.u", "i32")) >> >>),
      \* i32 @va(i32 %va.n, ...): walks its variable arguments, copies the
      \* list and hands the copy down
      va |-> Func(FALSE, <<Val("va.n", "i32")>>, "i32",
        << << Alloca("va.l", CInt(1)),
              Alloca("va.c", CInt(1)),
              VAStart("va.start", Val("va.l", "ptr")),
              VAArg("va.1", "i32", Val("va.l", "ptr")),
              VACopy("va.copy", Val("va.c", "ptr"), Val("va.l", "ptr")),
              VAArg("va.2", "i32", Val("va.l", "ptr")),
              Call("va.u", "i32", Fn("vuse"), <<Val("va.c", "ptr")>>),
              Ret("va.ret", Val("va.u", "i32")) >> >>),
      \* i32 @vuse(ptr %vu.p): takes the next argument of its caller's list
      vuse |-> Func(FALSE, <<Val("vu.p", "ptr")>>, "i32",
        << << VAArg("vu.1", "i32", Val("vu.p", "ptr")),
              Ret("vu.ret", Val("vu.1", "i32")) >> >>),
      \* i32 @vcall(): calls @va with three variable arguments
      vcall |-> Func(FALSE, <<>>, "i32",
        << << Call("vc.r", "i32", Fn("va"),
                   <<CInt(2), CInt(10), CInt(20), CInt(30)>>),
              Ret("vc.ret", Val("vc.r", "i32")) >> >>),
      \* i32 @outer() calls @inner(), which calls the declaration @ext
      outer |-> Func(FALSE, <<>>, "i32",
        << << Call("o.r", "i32", Fn("inner"), <<>>),
              Ret("o.ret", Val("o.r", "i32")) >> >>),
      inner |-> Func(FALSE, <<>>, "i32",
        << << Call("n.e", "i32", Fn("ext"), <<CInt(1)>>),
              Ret("n.ret", Val("n.e", "i32")) >> >>)
    ]

\* F->getFunctionType()->isVarArg()
isVarArg(F) == F \in {"va"}

\* Debug locations (line numbers) of the instructions that carry one.
DebugLine ==
    ("b1.c" :> 10) @@ ("b2.c" :> 20) @@ ("b3.ld" :> 30) @@ ("s.v" :> 40)

\* I.getDebugLoc(): <<>> is no location.
getDebugLoc(id) == IF id \in DOMAIN DebugLine THEN <<DebugLine[id]>> ELSE <<>>

FunctionNames == DOMAIN Module

\* Host addresses of the functions (getPointerToFunction returns (void *)F).
FuncAddr ==
    [main |-> 9001, retc |-> 9002, ext |-> 9003, vext |-> 9004, work |-> 9005,
     ind |-> 9006, inv |-> 9007, phis |-> 9008, allocs |-> 9009,
     leaf |-> 9010, slot |-> 9011, bad1 |-> 9012, bad2 |-> 9013,
     bad3 |-> 9014, intr |-> 9015, va |-> 9016, vuse |-> 9017,
     vcall |-> 9018, outer |-> 9019, inner |-> 9020]

FuncAt(addr) == CHOOSE f \in FunctionNames : FuncAddr[f] = addr

InstAt(f, b, i) == Module[f].blocks[b][i]

BlockLen(f, b) == Len(Module[f].blocks[b])


\* Every instruction of the module, and the lookup of an instruction by its
\* identity (the Value* / CallBase* the interpreter holds).
BlockInsts(blk) == { blk[i] : i \in 1..Len(blk) }

FuncInsts(F) == UNION { BlockInsts(F.blocks[b]) : b \in 1..Len(F.blocks) }

AllInsts == UNION { FuncInsts(Module[f]) : f \in FunctionNames }

InstIndex(S) == [id \in { I.id : I \in S } |-> CHOOSE I \in S : I.id = id]

InstOf == InstIndex(AllInsts)

TypeWidth(ty) == IF ty = "i1" THEN 1 ELSE 32

-----------------------------------------------------------------------------
(* Frames and threads *)

EmptyValues == [n \in {} |-> GenericValue]

\* ExecutionContext(Wrapper, MiriFree)
ExecutionContext ==
    [CurFunction |-> "", CurBB |-> 0, PreviousInst |-> "", CurInst |-> 0,
     Caller |-> "", MustResolvePendingReturn |-> FALSE,
     Values |-> EmptyValues, VarArgs |-> <<>>, MiriAllocas |-> <<>>]

\* ExecutionThread(): empty stack, zeroed exit value
ExecutionThread ==
    [ECStack |-> <<>>, ExitValue |-> GenericValue, InitArgs |-> <<>>]

\* Oracle hook calls as the oracle observes them.
HookCall(hook, ptr, name) ==
    [hook |-> hook, ptr |-> ptr, name |-> name, val |-> GenericValue,
     status |-> FALSE, trace |-> <<>>]

NoPtr == [addr |-> 0, prov |-> NULL_PROVENANCE]

\* A load or store hook call: the pointer, the value moved and the status
\* the hook returned (TRUE reports an error).
MemHookCall(hook, ptr, val, status) ==
    [HookCall(hook, ptr, "") EXCEPT !.val = val, !.status = status]

\* A stack_trace_recorder call: the trace and the text of the instruction.
RecorderCall(trace, inst) ==
    [HookCall("stack_trace_recorder", NoPtr, inst) EXCEPT !.trace = trace]

\* SetValue: stamp the value with the IR type and store it in the frame's map.
SetValue(V, ty, GV, SF) ==
    [SF EXCEPT !.Values =
        [n \in DOMAIN SF.Values \cup {V} |->
            IF n = V THEN [GV EXCEPT !.ValueTy = ty] ELSE SF.Values[n]]]

\* ExecutionEngine::getConstantValue for the constants of the module: integer
\* literals, and functions as host pointers without provenance.
getConstantValue(O) ==
    IF O.k = "f"
    THEN MiriPointerTOGV([addr |-> FuncAddr[O.n], prov |-> NULL_PROVENANCE])
    ELSE IF O.ty = "double" THEN [GenericValue EXCEPT !.DoubleVal = O.v]
    ELSE IntGV(TypeWidth(O.ty), O.v)

\* getOperandValue: constants are materialized, other values are read from
\* the frame's map (a missing entry reads as GenericValue()); the result is
\* stamped with the operand's type.
getOperandValue(O, SF) ==
    LET OperandValue ==
            IF O.k \in {"c", "f"} THEN getConstantValue(O)
            ELSE IF O.n \in DOMAIN SF.Values THEN SF.Values[O.n]
            ELSE GenericValue
    IN [OperandValue EXCEPT !.ValueTy = O.ty]

context(th) == th.ECStack[Len(th.ECStack)]

setContext(th, SF) == [th EXCEPT !.ECStack[Len(th.ECStack)] = SF]

stackIsEmpty(th) == th.ECStack = <<>>

\* ~MiriAllocaHolder: every tracked pointer goes to the free hook, in the
\* order of the range-for over the vector.
MiriAllocaHolderDtor(MiriAllocations) ==
    [i \in 1..Len(MiriAllocations) |-> HookCall("free", MiriAllocations[i], "")]

\* A pop that lets go of the top frame without running its destructor.
popContextNoFree(th) ==
    [th  |-> [th EXCEPT !.ECStack = SubSeq(th.ECStack, 1, Len(th.ECStack) - 1)],
     log |-> <<>>]

\* popContext: ECStack.pop_back() destroys the top frame.
popContext(th) ==
    [th  |-> [th EXCEPT !.ECStack = SubSeq(th.ECStack, 1, Len(th.ECStack) - 1)],
     log |-> MiriAllocaHolderDtor(context(th).MiriAllocas)]


-----------------------------------------------------------------------------
(* Instruction visitors.  Each maps the current thread to its successor,   *)
(* with the hook calls it made (log) and the oracle's allocation counter.  *)

Step(th, log, na) == [th |-> th, log |-> log, na |-> na]

StepOf(r, na) == Step(r.th, r.log, na)

\* Number of PHI nodes that lead block b of function f.
RECURSIVE PhiCountFrom(_, _, _)
PhiCountFrom(f, b, i) ==
    IF i <= BlockLen(f, b) /\ InstAt(f, b, i).op = "phi"
    THEN 1 + PhiCountFrom(f, b, i + 1)
    ELSE 0

PhiCount(f, b) == PhiCountFrom(f, b, 1)

\* PN->getIncomingValue(PN->getBasicBlockIndex(PrevBB))
IncomingValue(PN, PrevBB) ==
    PN.ops[CHOOSE i \in 1..Len(PN.preds) : PN.preds[i] = PrevBB]

\* A one-phase evaluation of the PHI nodes: each is read and written in turn.
OnePhasePhi(PN, PrevBB, SF) ==
    SetValue(PN.id, PN.ty, getOperandValue(IncomingValue(PN, PrevBB), SF), SF)

RECURSIVE OnePhasePhis(_, _, _, _)
OnePhasePhis(SF, PrevBB, i, n) ==
    IF i > n THEN SF
    ELSE OnePhasePhis(
             OnePhasePhi(InstAt(SF.CurFunction, SF.CurBB, i), PrevBB, SF),
             PrevBB, i + 1, n)

EnterBlockOnePhase(SF1, PrevBB, n) ==
    [OnePhasePhis(SF1, PrevBB, 1, n) EXCEPT !.CurInst = n + 1]

SwitchToNewBasicBlockOnePhase(Dest, SF) ==
    EnterBlockOnePhase([SF EXCEPT !.CurBB = Dest, !.CurInst = 1], SF.CurBB,
                       PhiCount(SF.CurFunction, Dest))

\* SwitchToNewBasicBlock: update block and cursor, read the incoming value of
\* every leading PHI node, then write them all.
WritePhi(PN, ResultValue, SF) == SetValue(PN.id, PN.ty, ResultValue, SF)

RECURSIVE WritePhis(_, _, _, _)
WritePhis(SF, ResultValues, i, n) ==
    IF i > n THEN SF
    ELSE WritePhis(WritePhi(InstAt(SF.CurFunction, SF.CurBB, i),
                            ResultValues[i], SF),
                   ResultValues, i + 1, n)

\* The first loop: ResultValues, read with the block and cursor updated.
ReadPhis(SF1, PrevBB, n) ==
    [i \in 1..n |->
        getOperandValue(
            IncomingValue(InstAt(SF1.CurFunction, SF1.CurBB, i), PrevBB), SF1)]

EnterBlock(SF1, PrevBB, n) ==
    [WritePhis(SF1, ReadPhis(SF1, PrevBB, n), 1, n) EXCEPT !.CurInst = n + 1]

SwitchToNewBasicBlock(Dest, SF) ==
    EnterBlock([SF EXCEPT !.CurBB = Dest, !.CurInst = 1], SF.CurBB,
               PhiCount(SF.CurFunction, Dest))

\* The tail of a value's delivery to the frame of the call C: an invoke
\* continues at its normal destination; the call is no longer outstanding.
ResumeCaller(C, SF) ==
    IF C.op = "invoke"
    THEN [SwitchToNewBasicBlock(C.dests[1], SF) EXCEPT !.Caller = ""]
    ELSE [SF EXCEPT !.Caller = ""]

\* Delivery of a return value that ignores the type of the call.
deliverIgnoringVoid(th, C, Result) ==
    setContext(th, ResumeCaller(C, SetValue(C.id, C.ty, Result, context(th))))

passReturnValueIgnoringVoid(th, RetTy, Result) ==
    IF stackIsEmpty(th)
    THEN IF RetTy # "void"
         THEN [th EXCEPT !.ExitValue = Result]
         ELSE [th EXCEPT !.ExitValue.PointerVal = 0]
    ELSE IF context(th).Caller # ""
         THEN deliverIgnoringVoid(th, InstOf[context(th).Caller], Result)
         ELSE th

\* passReturnValueToLowerStackFrame, the branch for a frame with a Caller:
\* fill in the return value unless the call is void, resume the caller.
deliverToCaller(th, C, Result) ==
    setContext(th,
        ResumeCaller(C, IF C.ty # "void"
                        THEN SetValue(C.id, C.ty, Result, context(th))
                        ELSE context(th)))

\* Delivery of a return value that leaves the thread's exit slot alone.
passReturnValueDropExit(th, RetTy, Result) ==
    IF stackIsEmpty(th)
    THEN th
    ELSE IF context(th).Caller # ""
         THEN deliverToCaller(th, InstOf[context(th).Caller], Result)
         ELSE th

\* passReturnValueToLowerStackFrame
passReturnValueToLowerStackFrame(th, RetTy, Result) ==
    IF stackIsEmpty(th)
    THEN IF RetTy # "void"
         THEN [th EXCEPT !.ExitValue = Result]
         ELSE [th EXCEPT !.ExitValue.PointerVal = 0]
    ELSE IF context(th).Caller # ""
         THEN deliverToCaller(th, InstOf[context(th).Caller], Result)
         ELSE th

\* popStackAndReturnValueToCaller
passAfterPop(p, RetTy, Result) ==
    [th  |-> passReturnValueToLowerStackFrame(p.th, RetTy, Result),
     log |-> p.log]

popStackAndReturnValueToCaller(th, RetTy, Result) ==
    passAfterPop(popContext(th), RetTy, Result)

visitReturnInst(th, I, na) ==
    StepOf(popStackAndReturnValueToCaller(
               th,
               IF Len(I.ops) > 0 THEN I.ops[1].ty ELSE "void",
               IF Len(I.ops) > 0 THEN getOperandValue(I.ops[1], context(th))
               ELSE GenericValue),
           na)

visitBranchInst(th, I, na) ==
    LET SF == context(th)
        Dest == IF Len(I.ops) > 0 /\ getOperandValue(I.ops[1], SF).IntVal = 0
                THEN I.dests[2]
                ELSE I.dests[1]
    IN Step(setContext(th, SwitchToNewBasicBlock(Dest, SF)), <<>>, na)

visitBinaryOperator(th, I, na) ==
    LET SF == context(th)
        Src1 == getOperandValue(I.ops[1], SF)
        Src2 == getOperandValue(I.ops[2], SF)
        R == IntGV(Src1.BitWidth, Src1.IntVal + Src2.IntVal)
    IN Step(setContext(th, SetValue(I.id, I.ty, R, SF)), <<>>, na)

visitICmpInst(th, I, na) ==
    LET SF == context(th)
        Src1 == getOperandValue(I.ops[1], SF)
        Src2 == getOperandValue(I.ops[2], SF)
        R == IntGV(1, IF Src1.IntVal = Src2.IntVal THEN 1 ELSE 0)
    IN Step(setContext(th, SetValue(I.id, I.ty, R, SF)), <<>>, na)

\* The oracle's malloc hook: a pointer into allocation na.
MiriMalloc(na) ==
    [addr |-> 4096 + 16 * na, prov |-> [alloc_id |-> na, tag |-> na]]

visitAllocaInst(th, I, na) ==
    LET SF == context(th)
        MiriPointerVal == MiriMalloc(na)
        SF1 == SetValue(I.id, I.ty, MiriPointerTOGV(MiriPointerVal), SF)
        SF2 == [SF1 EXCEPT !.MiriAllocas = Append(@, MiriPointerVal)]
    IN Step(setContext(th, SF2),
            <<HookCall("malloc", MiriPointerVal, "")>>, na)

\* The oracle's load and store hooks: an access through a pointer that is
\* not live is reported as an error; a load returns what was last stored.
MiriLoadStoreFails(MiriPointerVal) == MiriPointerVal \notin live

MiriLoaded(MiriPointerVal) ==
    IF MiriPointerVal \in DOMAIN mem THEN mem[MiriPointerVal] ELSE GenericValue

\* registerMiriErrorWithoutLocation: the locations of the frames' Callers,
\* in the order of the loop over ECStack, are inserted at the front of
\* StackTrace, which is handed to the recorder with the last instruction.
RECURSIVE CallStackTrace(_)
CallStackTrace(ECStack) ==
    IF ECStack = <<>> THEN <<>>
    ELSE (IF Head(ECStack).Caller # ""
          THEN getDebugLoc(Head(ECStack).Caller) ELSE <<>>)
         \o CallStackTrace(Tail(ECStack))

registerMiriErrorWithoutLocation(th, Trace) ==
    RecorderCall(CallStackTrace(th.ECStack) \o Trace, context(th).PreviousInst)

\* registerMiriError: the location of I, if any, is pushed at the back
registerMiriError(th, I) ==
    registerMiriErrorWithoutLocation(th, StackTrace \o getDebugLoc(I.id))

\* A load that assigns the slot whatever the hook reported.
loadAssignAnyway(th, I, MiriPointerVal, na) ==
    IF MiriLoadStoreFails(MiriPointerVal)
    THEN Step(setContext(th, SetValue(I.id, I.ty, GenericValue, context(th))),
              <<MemHookCall("load", MiriPointerVal, GenericValue, TRUE),
                registerMiriError(th, I)>>, na)
    ELSE Step(setContext(th, SetValue(I.id, I.ty, MiriLoaded(MiriPointerVal),
                                      context(th))),
              <<MemHookCall("load", MiriPointerVal,
                            MiriLoaded(MiriPointerVal), FALSE)>>, na)

\* visitLoadInst, once the pointer operand is read
loadFromMiriMemory(th, I, MiriPointerVal, na) ==
    IF MiriLoadStoreFails(MiriPointerVal)
    THEN Step(th, <<MemHookCall("load", MiriPointerVal, GenericValue, TRUE),
                    registerMiriError(th, I)>>, na)
    ELSE Step(setContext(th, SetValue(I.id, I.ty, MiriLoaded(MiriPointerVal),
                                      context(th))),
              <<MemHookCall("load", MiriPointerVal,
                            MiriLoaded(MiriPointerVal), FALSE)>>, na)

visitLoadInst(th, I, na) ==
    loadFromMiriMemory(th, I,
        GVTOMiriPointer(getOperandValue(I.ops[1], context(th))), na)

\* visitStoreInst, once the value and the pointer operand are read
storeToMiriMemory(th, I, Val_, MiriPointerVal, na) ==
    IF MiriLoadStoreFails(MiriPointerVal)
    THEN Step(th, <<MemHookCall("store", MiriPointerVal, Val_, TRUE),
                    registerMiriError(th, I)>>, na)
    ELSE Step(th, <<MemHookCall("store", MiriPointerVal, Val_, FALSE)>>, na)

visitStoreInst(th, I, na) ==
    storeToMiriMemory(th, I, getOperandValue(I.ops[1], context(th)),
        GVTOMiriPointer(getOperandValue(I.ops[2], context(th))), na)

\* callExternalFunction hands the call to the oracle's call_by_name hook.
callExternalFunction(F, ArgVals) == <<HookCall("call_by_name", NoPtr, F)>>

\* CallMiriFunctionByPointer hands the call to the call_by_pointer hook.
CallMiriFunctionByPointer(FuncPtr, ArgVals) ==
    <<HookCall("call_by_pointer", GVTOMiriPointer(FuncPtr), "")>>

\* StackFrame.VarArgs.assign(ArgVals.begin() + i, ArgVals.end()), and an
\* assignment of all of ArgVals.
assignVarArgsAll(ArgVals, i) == ArgVals

assignVarArgs(ArgVals, i) == SubSeq(ArgVals, i + 1, Len(ArgVals))

\* A binding loop that binds nothing.
BindArgsNone(SF, params, ArgVals, i) == SF

\* Binding of the declared parameters: SetValue(&*AI, ArgVals[i], StackFrame)
RECURSIVE BindArgs(_, _, _, _)
BindArgs(SF, params, ArgVals, i) ==
    IF i > Len(params) THEN SF
    ELSE BindArgs(SetValue(params[i].n, params[i].ty, ArgVals[i], SF),
                  params, ArgVals, i + 1)

\* MiriAllocaHolder(MiriAllocaHolder &&) = default: the holder moved from
\* is left without tracked pointers; and a holder that keeps them.
movedFromKeeps(MiriAllocations) == MiriAllocations

movedFrom(MiriAllocations) == <<>>

\* currentStack().emplace_back(...) when the vector's storage is replaced:
\* each frame is moved to the new storage and the frame moved from is
\* destroyed.
RECURSIVE relocateFrames(_)
relocateFrames(ECStack) ==
    IF ECStack = <<>> THEN <<>>
    ELSE MiriAllocaHolderDtor(movedFrom(Head(ECStack).MiriAllocas))
         \o relocateFrames(Tail(ECStack))

\* callFunction with the declaration path not marking the frame below.
callFunctionNoFlag(th, F, ArgVals) ==
    LET pushed == [th EXCEPT !.ECStack =
                       Append(@, [ExecutionContext EXCEPT !.CurFunction = F])]
    IN IF Module[F].isDeclaration
       THEN LET p == popContext(pushed)
            IN [th |-> p.th,
                log |-> relocateFrames(th.ECStack)
                        \o callExternalFunction(F, ArgVals) \o p.log]
       ELSE LET StackFrame ==
                    BindArgs([context(pushed) EXCEPT !.CurBB = 1, !.CurInst = 1],
                             Module[F].params, ArgVals, 1)
                n == Len(Module[F].params)
            IN [th  |-> setContext(pushed,
                            [StackFrame EXCEPT !.VarArgs =
                                assignVarArgs(ArgVals, n)]),
                log |-> relocateFrames(th.ECStack)]

\* callFunction: push a frame for F.  A declaration is handed to the oracle,
\* its frame popped at once and the frame below left awaiting the return
\* value; otherwise the frame starts at F's first instruction with the
\* parameters bound and the extra arguments kept as varargs.
callFunction(th, F, ArgVals) ==
    LET pushed == [th EXCEPT !.ECStack =
                       Append(@, [ExecutionContext EXCEPT !.CurFunction = F])]
    IN IF Module[F].isDeclaration
       THEN LET p == popContext(pushed)
            IN [th  |-> IF ~stackIsEmpty(p.th)
                        THEN setContext(p.th,
                                 [context(p.th) EXCEPT
                                     !.MustResolvePendingReturn = TRUE])
                        ELSE p.th,
                log |-> relocateFrames(th.ECStack)
                        \o callExternalFunction(F, ArgVals) \o p.log]
       ELSE LET StackFrame ==
                    BindArgs([context(pushed) EXCEPT !.CurBB = 1, !.CurInst = 1],
                             Module[F].params, ArgVals, 1)
                n == Len(Module[F].params)
            IN [th  |-> setContext(pushed,
                            [StackFrame EXCEPT !.VarArgs =
                                assignVarArgs(ArgVals, n)]),
                log |-> relocateFrames(th.ECStack)]

\* visitCallBase, once SF.Caller is set and the called operand SRC is read
dispatchCall(th, SF, SRC, ArgVals, na) ==
    IF SRC.Provenance.alloc_id # 0
    THEN Step(setContext(th, [SF EXCEPT !.MustResolvePendingReturn = TRUE]),
              CallMiriFunctionByPointer(SRC, ArgVals), na)
    ELSE StepOf(callFunction(setContext(th, SF), FuncAt(GVTOP(SRC)), ArgVals),
                na)

callWithCaller(th, I, SF, na) ==
    dispatchCall(th, SF, getOperandValue(I.callee, SF),
                 [i \in 1..Len(I.ops) |-> getOperandValue(I.ops[i], SF)], na)

\* A call made without SF.Caller = &I.
visitCallBaseNoCaller(th, I, na) == callWithCaller(th, I, context(th), na)

visitCallBase(th, I, na) ==
    callWithCaller(th, I, [context(th) EXCEPT !.Caller = I.id], na)

\* executeIntrinsicFabsInst and executeIntrinsicFmuladdInst on doubles
\* that are whole numbers.
executeIntrinsicFabsInst(Src1) ==
    [GenericValue EXCEPT !.DoubleVal =
        IF Src1.DoubleVal < 0 THEN 0 - Src1.DoubleVal ELSE Src1.DoubleVal]

executeIntrinsicFmuladdInst(Src1, Src2, Src3) ==
    [GenericValue EXCEPT !.DoubleVal =
        Src1.DoubleVal * Src2.DoubleVal + Src3.DoubleVal]

\* executeIntrinsicFshInst on the integer Values of a frame.
executeIntrinsicFshInst(Src1, Src2, Src3, isLeft) ==
    IntGV(Src1.BitWidth,
          getZExtValue(executeIntrinsicFshIntInst(
              BitsGV(NatBits(Src1.BitWidth, Src1.IntVal)),
              BitsGV(NatBits(Src2.BitWidth, Src2.IntVal)),
              BitsGV(NatBits(Src3.BitWidth, Src3.IntVal)), isLeft).IntVal))

\* The cases of visitIntrinsicInst: the result R is set, and the cursor of
\* the frame is moved by Advance instructions more.
intrinsicResult(I, SF) ==
    CASE I.op = "fmuladd" ->
            executeIntrinsicFmuladdInst(getOperandValue(I.ops[1], SF),
                                        getOperandValue(I.ops[2], SF),
                                        getOperandValue(I.ops[3], SF))
      [] I.op \in {"fshl", "fshr"} ->
            executeIntrinsicFshInst(getOperandValue(I.ops[1], SF),
                                    getOperandValue(I.ops[2], SF),
                                    getOperandValue(I.ops[3], SF),
                                    I.op = "fshl")
      [] I.op = "fabs" ->
            executeIntrinsicFabsInst(getOperandValue(I.ops[1], SF))

\* fshl and fshr end in ++SF.CurInst.
intrinsicAdvance(I) == IF I.op \in {"fshl", "fshr"} THEN 1 ELSE 0

setIntrinsic(I, SF) ==
    [SetValue(I.id, I.ty, intrinsicResult(I, SF), SF)
        EXCEPT !.CurInst = @ + intrinsicAdvance(I)]

visitIntrinsicInst(th, I, na) ==
    Step(setContext(th, setIntrinsic(I, context(th))), <<>>, na)

\* A step that ends in report_fatal_error.
FatalStep(th, log, na) == [th |-> th, log |-> log, na |-> na, fatal |-> TRUE]

stepIsFatal(r) == "fatal" \in DOMAIN r

\* visitVAStartInst: the pair (stack size - 1, 0) is stored through the
\* oracle at the operand pointer.
visitVAStartInst(th, I, na) ==
    storeToMiriMemory(th, I,
        [GenericValue EXCEPT !.UIntPairVal = <<Len(th.ECStack) - 1, 0>>],
        GVTOMiriPointer(getOperandValue(I.ops[1], context(th))), na)

\* visitVACopyInst: the pair is loaded from the source and stored to the
\* destination.
vaCopyStore(th, I, SourceArgIndex, Src, Dest, na) ==
    Step(th,
         <<MemHookCall("load", Src, SourceArgIndex, FALSE)>>
            \o storeToMiriMemory(th, I, SourceArgIndex, Dest, na).log,
         na)

vaCopy(th, I, Dest, Src, na) ==
    IF MiriLoadStoreFails(Src)
    THEN Step(th, <<MemHookCall("load", Src, GenericValue, TRUE),
                    registerMiriError(th, I)>>, na)
    ELSE vaCopyStore(th, I, MiriLoaded(Src), Src, Dest, na)

visitVACopyInst(th, I, na) ==
    vaCopy(th, I, GVTOMiriPointer(getOperandValue(I.ops[1], context(th))),
           GVTOMiriPointer(getOperandValue(I.ops[2], context(th))), na)

\* visitVAArgInst: the switch on the type of the instruction.
vaArgDest(Ty, Src) ==
    CASE Ty \in {"i1", "i32"} ->
            [GenericValue EXCEPT !.IntVal = Src.IntVal,
                                 !.BitWidth = Src.BitWidth]
      [] Ty = "ptr" ->
            [GenericValue EXCEPT !.PointerVal = Src.PointerVal,
                                 !.Provenance = Src.Provenance]
      [] Ty = "double" -> [GenericValue EXCEPT !.DoubleVal = Src.DoubleVal]

\* What the pair is stored back as: the second component one more, and
\* the same pair again.
vaNextSame(SourceArgIndex) == SourceArgIndex

vaNext(SourceArgIndex) ==
    [SourceArgIndex EXCEPT !.UIntPairVal[2] = @ + 1]

\* visitVAArgInst, once the pair is loaded: the two range checks, the
\* fetch from the frame the pair names, SetValue, the store of the pair.
vaArgFetch(th, I, VASrc, SourceArgIndex, na) ==
    IF SourceArgIndex.UIntPairVal[1] >= Len(th.ECStack)
    THEN FatalStep(th, <<MemHookCall("load", VASrc, SourceArgIndex, FALSE)>>,
                   na)
    ELSE IF SourceArgIndex.UIntPairVal[2]
              >= Len(th.ECStack[SourceArgIndex.UIntPairVal[1] + 1].VarArgs)
    THEN FatalStep(th, <<MemHookCall("load", VASrc, SourceArgIndex, FALSE)>>,
                   na)
    ELSE IF I.ty \notin {"i1", "i32", "ptr", "double"}
    THEN FatalStep(th, <<MemHookCall("load", VASrc, SourceArgIndex, FALSE)>>,
                   na)
    ELSE Step(setContext(th,
                  SetValue(I.id, I.ty,
                      vaArgDest(I.ty,
                          th.ECStack[SourceArgIndex.UIntPairVal[1] + 1]
                            .VarArgs[SourceArgIndex.UIntPairVal[2] + 1]),
                      context(th))),
              <<MemHookCall("load", VASrc, SourceArgIndex, FALSE)>>
                 \o storeToMiriMemory(th, I, vaNext(SourceArgIndex), VASrc,
                                      na).log,
              na)

vaArg(th, I, VASrc, na) ==
    IF MiriLoadStoreFails(VASrc)
    THEN Step(th, <<MemHookCall("load", VASrc, GenericValue, TRUE),
                    registerMiriError(th, I)>>, na)
    ELSE vaArgFetch(th, I, VASrc, MiriLoaded(VASrc), na)

visitVAArgInst(th, I, na) ==
    vaArg(th, I, GVTOMiriPointer(getOperandValue(I.ops[1], context(th))), na)

\* InstVisitor dispatch
visit(th, I, na) ==
    CASE I.op = "ret"    -> visitReturnInst(th, I, na)
      [] I.op = "br"     -> visitBranchInst(th, I, na)
      [] I.op = "add"    -> visitBinaryOperator(th, I, na)
      [] I.op = "icmp"   -> visitICmpInst(th, I, na)
      [] I.op = "alloca" -> visitAllocaInst(th, I, na)
      [] I.op = "load"   -> visitLoadInst(th, I, na)
      [] I.op = "store"  -> visitStoreInst(th, I, na)
      [] I.op \in {"call", "invoke"} -> visitCallBase(th, I, na)
      [] I.op \in {"fshl", "fshr", "fabs", "fmuladd"} ->
            visitIntrinsicInst(th, I, na)
      [] I.op = "va_start" -> visitVAStartInst(th, I, na)
      [] I.op = "va_copy" -> visitVACopyInst(th, I, na)
      [] I.op = "va_arg" -> visitVAArgInst(th, I, na)


-----------------------------------------------------------------------------
(* The driver-facing operations *)

Call_(op, tid, pending, returned, ret, inst) ==
    [op |-> op, tid |-> tid, pending |-> pending, returned |-> returned,
     ret |-> ret, inst |-> inst]

\* The oracle: malloc hands out an allocation that is not live, free retires
\* a live pointer and notes any pointer that is not live.  Allocation ids are
\* interchangeable to the interpreter (it only tests alloc_id against 0), so
\* one representative is chosen: the id named after the requesting thread,
\* stack depth and position in the frame, or else the least id not live.
FreshAlloc(lv, tid, th) ==
    LET hint == 100 * tid + 10 * Len(th.ECStack)
                + Len(context(th).MiriAllocas) + 1
    IN IF MiriMalloc(hint) \notin lv THEN hint
       ELSE CHOOSE n \in 1..(Cardinality(lv) + 1) : MiriMalloc(n) \notin lv

RECURSIVE LiveAfter(_, _)
LiveAfter(lv, log) ==
    IF log = <<>> THEN lv
    ELSE LET h == Head(log)
         IN LiveAfter(CASE h.hook = "malloc" -> lv \cup {h.ptr}
                        [] h.hook = "free"   -> lv \ {h.ptr}
                        [] OTHER             -> lv,
                      Tail(log))

RECURSIVE BadFreeIn(_, _)
BadFreeIn(lv, log) ==
    IF log = <<>> THEN FALSE
    ELSE LET h == Head(log)
         IN \/ h.hook = "free" /\ h.ptr \notin lv
            \/ BadFreeIn(LiveAfter(lv, <<h>>), Tail(log))

\* The oracle's memory after the hook calls of log: a successful store
\* writes, a free forgets.
MemWrite(m, ptr, val) ==
    [p \in DOMAIN m \cup {ptr} |-> IF p = ptr THEN val ELSE m[p]]

MemForget(m, ptr) == [p \in DOMAIN m \ {ptr} |-> m[p]]

RECURSIVE MemAfter(_, _)
MemAfter(m, log) ==
    IF log = <<>> THEN m
    ELSE MemAfter(CASE Head(log).hook = "store" /\ ~Head(log).status
                         -> MemWrite(m, Head(log).ptr, Head(log).val)
                    [] Head(log).hook = "free" -> MemForget(m, Head(log).ptr)
                    [] OTHER -> m,
                  Tail(log))

\* The recorder calls among the hook calls of log
RecorderCalls(log) == SelectSeq(log, LAMBDA h : h.hook = "stack_trace_recorder")

\* registerMiriError's effect on the interpreter: setMiriErrorFlag() and
\* the StackTrace that was handed to the recorder.
MiriErrorLatch(log) ==
    /\ MiriErrorFlag' = (MiriErrorFlag \/ RecorderCalls(log) # <<>>)
    /\ StackTrace' = IF RecorderCalls(log) # <<>>
                     THEN RecorderCalls(log)[Len(RecorderCalls(log))].trace
                     ELSE StackTrace

Oracle(log) ==
    /\ lastHooks' = log
    /\ live' = LiveAfter(live, log)
    /\ badFree' = (badFree \/ BadFreeIn(live, log))
    /\ mem' = MemAfter(mem, log)
    /\ MiriErrorLatch(log)

\* ~ExecutionThread: the frames of ECStack are destroyed, front to back or
\* back to front as the standard library of the build does it.
RECURSIVE DestroyFrames(_, _)
DestroyFrames(ECStack, reverse) ==
    IF ECStack = <<>> THEN <<>>
    ELSE IF reverse
         THEN MiriAllocaHolderDtor(ECStack[Len(ECStack)].MiriAllocas)
              \o DestroyFrames(SubSeq(ECStack, 1, Len(ECStack) - 1), reverse)
         ELSE MiriAllocaHolderDtor(ECStack[1].MiriAllocas)
              \o DestroyFrames(Tail(ECStack), reverse)

ExecutionThreadDtor(T, id, reverse) ==
    IF id \in DOMAIN T THEN DestroyFrames(T[id].ECStack, reverse) ELSE <<>>

\* switchThread that forgets to change the current thread.
switchThreadStale(ThreadID) == CurrentThreadID

\* switchThread: the new current thread id
switchThread(ThreadID) == ThreadID

\* Initial arguments the driver passes to createThread, per entry function.
FnPtrArg ==
    [GenericValue EXCEPT !.PointerVal = 20480,
                         !.Provenance = [alloc_id |-> 77, tag |-> 3]]

\* A pointer into an allocation the oracle does not hold.
DanglingArg ==
    [GenericValue EXCEPT !.PointerVal = 24576,
                         !.Provenance = [alloc_id |-> 88, tag |-> 5]]

Entries ==
    { <<"main", <<>>>>, <<"retc", <<IntGV(32, 7)>>>>, <<"retc", <<IntGV(32, 9)>>>>,
      <<"work", <<IntGV(32, 7)>>>>, <<"ind", <<FnPtrArg>>>>, <<"inv", <<>>>>,
      <<"phis", <<>>>>, <<"allocs", <<>>>>, <<"ext", <<IntGV(32, 1)>>>>,
      <<"retc", <<IntGV(32, 7), IntGV(32, 8)>>>>,
      <<"slot", <<>>>>, <<"bad1", <<DanglingArg>>>> }

\* Pending return values the driver passes to stepThread: <<>> is the null
\* pointer, <<v>> a pointer to the GenericValue v.
Pendings == { <<>>, <<IntGV(32, 42)>> }

\* callFunction's assertion on the number of values passed to a function
\* with a body: as many as it declares, or more for a variadic function.
callFunctionAsserts(F, ArgVals) ==
    \/ Module[F].isDeclaration
    \/ Len(ArgVals) = Len(Module[F].params)
    \/ (Len(ArgVals) > Len(Module[F].params) /\ isVarArg(F))

\* A thread-removing call that empties the thread but keeps its entry.
terminateThreadKeep(ThreadID) ==
    /\ ~fatal /\ ~undefined
    /\ Oracle(ExecutionThreadDtor(Threads, ThreadID, reverseDestroy))
    /\ Threads' = [id \in DOMAIN Threads |->
                      IF id = ThreadID
                      THEN [Threads[id] EXCEPT !.ECStack = <<>>]
                      ELSE Threads[id]]
    /\ lastCall' = Call_("terminateThread", ThreadID, <<>>, TRUE, FALSE, "")
    /\ UNCHANGED <<CurrentThreadID, creates, fatal, undefined, reverseDestroy>>
    /\ ~running /\ UNCHANGED <<running, pureIn, pureOut, MiriWrapper, emitGlobalsCalls>>

\* createThread(NextThreadID, F, Args, NumArgs): all NumArgs arguments are
\* stashed in InitArgs and all of them are passed to callFunction.  Where
\* callFunction's assertion does not hold, a build with assertions aborts
\* and a build without them goes on.
createThread(NextThreadID, F, Args) ==
    /\ ~fatal /\ ~undefined
    /\ creates < MaxCreates
    /\ LET old == ExecutionThreadDtor(Threads, NextThreadID, reverseDestroy)
           fresh == [ExecutionThread EXCEPT !.InitArgs = Args]
           r == callFunction(fresh, F, Args)
       IN /\ Threads' = [id \in DOMAIN Threads \cup {NextThreadID} |->
                            IF id = NextThreadID THEN r.th ELSE Threads[id]]
          /\ Oracle(old \o r.log)
    /\ creates' = creates + 1
    /\ lastCall' = Call_("createThread", NextThreadID, <<>>, TRUE, FALSE, "")
    /\ \E aborts \in (IF callFunctionAsserts(F, Args) THEN {FALSE} ELSE BOOLEAN) :
          fatal' = aborts
    /\ UNCHANGED <<CurrentThreadID, undefined, reverseDestroy>>
    /\ ~running /\ UNCHANGED <<running, pureIn, pureOut, MiriWrapper, emitGlobalsCalls>>

\* The handshake with the Caller left in place after the value is delivered.
storePending(SF1, Caller, PendingReturnValue) ==
    IF Caller.ty # "void"
    THEN [SF1 EXCEPT !.Values =
            [n \in DOMAIN SF1.Values \cup {Caller.id} |->
                IF n = Caller.id THEN PendingReturnValue[1]
                ELSE SF1.Values[n]]]
    ELSE SF1

deliverPendingKeepCaller(Caller, SF2) ==
    IF Caller.op = "invoke"
    THEN SwitchToNewBasicBlock(Caller.dests[1], SF2)
    ELSE SF2

resolvePendingReturnKeepCaller(CallingSF, PendingReturnValue) ==
    IF CallingSF.MustResolvePendingReturn
    THEN deliverPendingKeepCaller(
             InstAt(CallingSF.CurFunction, CallingSF.CurBB,
                    CallingSF.CurInst - 1),
             storePending(
                 [CallingSF EXCEPT !.MustResolvePendingReturn = FALSE],
                 InstAt(CallingSF.CurFunction, CallingSF.CurBB,
                        CallingSF.CurInst - 1),
                 PendingReturnValue))
    ELSE CallingSF

\* The pending-return handshake at the head of stepThread: the frame after
\* it, given that the call was not fatal.  Caller is the instruction before
\* the cursor; the value is stored as it is (no SetValue), an invoke goes to
\* its normal destination and Caller is cleared.
deliverPending(Caller, SF1, PendingReturnValue) ==
    ResumeCaller(Caller, storePending(SF1, Caller, PendingReturnValue))

resolvePendingReturn(CallingSF, PendingReturnValue) ==
    IF CallingSF.MustResolvePendingReturn
    THEN deliverPending(
             InstAt(CallingSF.CurFunction, CallingSF.CurBB,
                    CallingSF.CurInst - 1),
             [CallingSF EXCEPT !.MustResolvePendingReturn = FALSE],
             PendingReturnValue)
    ELSE CallingSF

\* The handshake's checks with the null test skipped for void calls.
pendingReturnIsFatalNonVoidOnly(CallingSF, PendingReturnValue) ==
    IF CallingSF.MustResolvePendingReturn
    THEN /\ PendingReturnValue = <<>>
         /\ InstAt(CallingSF.CurFunction, CallingSF.CurBB,
                   CallingSF.CurInst - 1).ty # "void"
    ELSE PendingReturnValue = <<>>

\* The report_fatal_error conditions of the handshake.
pendingReturnIsFatal(CallingSF, PendingReturnValue) ==
    IF CallingSF.MustResolvePendingReturn
    THEN PendingReturnValue = <<>>
    ELSE PendingReturnValue = <<>>

\* The tail of stepThread: I = *CallingSF.CurInst++, PreviousInst = &I,
\* visit(I), return stackIsEmpty().
finishStep(ThreadID, PendingReturnValue, I, r) ==
    /\ Threads' = [Threads EXCEPT ![CurrentThreadID'] = r.th]
    /\ Oracle(r.log)
    /\ lastCall' = Call_("stepThread", ThreadID, PendingReturnValue,
                         ~stepIsFatal(r), stackIsEmpty(r.th), I.id)
    /\ fatal' = stepIsFatal(r)
    /\ UNCHANGED undefined

executeInst(ThreadID, PendingReturnValue, th, SF1, I) ==
    finishStep(ThreadID, PendingReturnValue, I,
               visit(setContext(th, [SF1 EXCEPT !.CurInst = @ + 1,
                                                !.PreviousInst = I.id]),
                     I, FreshAlloc(live, CurrentThreadID', th)))

executeNext(ThreadID, PendingReturnValue, th, SF1) ==
    executeInst(ThreadID, PendingReturnValue, th, SF1,
                InstAt(SF1.CurFunction, SF1.CurBB, SF1.CurInst))

\* stepThread(ThreadID, PendingReturnValue)
stepThread(ThreadID, PendingReturnValue) ==
    /\ ~fatal /\ ~undefined
    /\ CurrentThreadID' = switchThread(ThreadID)
    /\ UNCHANGED <<creates, reverseDestroy>>
    /\ ~running /\ UNCHANGED <<running, pureIn, pureOut, MiriWrapper, emitGlobalsCalls>>
    /\ IF CurrentThreadID' \notin DOMAIN Threads
       THEN \* getCurrentThread: "Current thread not found"
            /\ fatal' = TRUE
            /\ lastCall' = Call_("stepThread", ThreadID, PendingReturnValue,
                                 FALSE, FALSE, "")
            /\ Oracle(<<>>)
            /\ UNCHANGED <<Threads, undefined>>
       ELSE LET cur == CurrentThreadID'
                th == Threads[cur]
            IN IF stackIsEmpty(th)
               THEN \* context(): llvm_unreachable("Empty stack")
                    /\ \E aborts \in BOOLEAN :
                          /\ fatal' = aborts
                          /\ undefined' = ~aborts
                    /\ lastCall' = Call_("stepThread", ThreadID,
                                         PendingReturnValue, FALSE, FALSE, "")
                    /\ Oracle(<<>>)
                    /\ UNCHANGED Threads
               ELSE LET CallingSF == context(th)
                    IN IF pendingReturnIsFatal(CallingSF, PendingReturnValue)
                       THEN /\ fatal' = TRUE
                            /\ Threads' = [Threads EXCEPT ![cur] =
                                  setContext(th, [CallingSF EXCEPT
                                      !.MustResolvePendingReturn = FALSE])]
                            /\ lastCall' = Call_("stepThread", ThreadID,
                                      PendingReturnValue, FALSE, FALSE, "")
                            /\ Oracle(<<>>)
                            /\ UNCHANGED undefined
                       ELSE executeNext(ThreadID, PendingReturnValue, th,
                                resolvePendingReturn(CallingSF,
                                                     PendingReturnValue))

\* terminateThread(ThreadID): Threads.erase(ThreadID)
terminateThread(ThreadID) ==
    /\ ~fatal /\ ~undefined
    /\ Oracle(ExecutionThreadDtor(Threads, ThreadID, reverseDestroy))
    /\ Threads' = [id \in DOMAIN Threads \ {ThreadID} |-> Threads[id]]
    /\ lastCall' = Call_("terminateThread", ThreadID, <<>>, TRUE, FALSE, "")
    /\ UNCHANGED <<CurrentThreadID, creates, fatal, undefined, reverseDestroy>>
    /\ ~running /\ UNCHANGED <<running, pureIn, pureOut, MiriWrapper, emitGlobalsCalls>>

\* getThreadExitValueByID: <<>> is the null pointer, <<v>> a pointer to the
\* exit slot holding v.
hasThread(ThreadID) == ThreadID \in DOMAIN Threads

getThreadExitValueByID(ThreadID) ==
    IF ~hasThread(ThreadID) THEN <<>> ELSE <<Threads[ThreadID].ExitValue>>

\* A run() loop that never looks at the error flag.
runNeverBreaks(flag) == FALSE

\* run(): if (getMiriErrorFlag()) break;
runBreaks(flag) == flag

\* runFunction(F, ArgValues): the arguments are cut to the declared arity,
\* the function is called on the current thread and run() is entered.
ActualArgs(F, ArgValues) ==
    SubSeq(ArgValues, 1,
           IF Len(ArgValues) < Len(Module[F].params)
           THEN Len(ArgValues) ELSE Len(Module[F].params))

runCall(r) ==
    /\ Threads' = [Threads EXCEPT ![CurrentThreadID] = r.th]
    /\ Oracle(r.log)
    /\ running' = TRUE
    /\ UNCHANGED fatal

runFunction(F, ArgValues) ==
    /\ ~fatal /\ ~undefined /\ ~running
    /\ creates < MaxCreates
    /\ creates' = creates + 1
    /\ lastCall' = Call_("runFunction", CurrentThreadID, <<>>, FALSE, FALSE, "")
    /\ UNCHANGED <<CurrentThreadID, undefined, reverseDestroy, pureIn, pureOut,
                   MiriWrapper, emitGlobalsCalls>>
    /\ IF CurrentThreadID \notin DOMAIN Threads
       THEN \* getCurrentThread: "Current thread not found"
            /\ fatal' = TRUE
            /\ Oracle(<<>>)
            /\ UNCHANGED <<Threads, running>>
       ELSE runCall(callFunction(Threads[CurrentThreadID], F,
                                 ActualArgs(F, ArgValues)))

\* One turn of run()'s loop: I = *SF.CurInst++, visit(I), the test of the
\* error flag; PreviousInst is not written here.
runVisit(I, r) ==
    /\ Threads' = [Threads EXCEPT ![CurrentThreadID] = r.th]
    /\ Oracle(r.log)
    /\ running' = ~runBreaks(MiriErrorFlag')
    /\ fatal' = stepIsFatal(r)
    /\ lastCall' = Call_("run", CurrentThreadID, <<>>, ~running',
                         stackIsEmpty(r.th), I.id)

runInst(th, SF, I) ==
    runVisit(I, visit(setContext(th, [SF EXCEPT !.CurInst = @ + 1]), I,
                      FreshAlloc(live, CurrentThreadID, th)))

\* The cursor of a frame stands past the terminator of its block: an invoke
\* handed to the oracle leaves it there, and run() holds no handshake.
cursorAtEnd(SF) == SF.CurInst > BlockLen(SF.CurFunction, SF.CurBB)

runStep ==
    /\ running /\ ~fatal /\ ~undefined
    /\ UNCHANGED <<CurrentThreadID, creates, reverseDestroy, pureIn, pureOut,
                   MiriWrapper, emitGlobalsCalls>>
    /\ IF stackIsEmpty(Threads[CurrentThreadID])
       THEN \* while (!stackIsEmpty()) fails: run() and runFunction return
            /\ running' = FALSE
            /\ lastCall' = Call_("runFunction", CurrentThreadID, <<>>, TRUE,
                                 TRUE, "")
            /\ Oracle(<<>>)
            /\ UNCHANGED <<Threads, undefined, fatal>>
       ELSE IF cursorAtEnd(context(Threads[CurrentThreadID]))
       THEN \* *SF.CurInst++ reads the end of the block's instruction list
            /\ undefined' = TRUE
            /\ lastCall' = Call_("run", CurrentThreadID, <<>>, FALSE, FALSE, "")
            /\ Oracle(<<>>)
            /\ UNCHANGED <<Threads, running, fatal>>
       ELSE /\ runInst(Threads[CurrentThreadID],
                    context(Threads[CurrentThreadID]),
                    InstAt(context(Threads[CurrentThreadID]).CurFunction,
                           context(Threads[CurrentThreadID]).CurBB,
                           context(Threads[CurrentThreadID]).CurInst))
            /\ UNCHANGED undefined

\* The interpreter and the oracle after construction.
InitInterpreter ==
    /\ Threads = [id \in {} |-> ExecutionThread]
    /\ CurrentThreadID \in {0} \cup ThreadIDs
    /\ lastHooks = <<>>
    /\ live = {}
    /\ badFree = FALSE
    /\ creates = 0
    /\ fatal = FALSE
    /\ undefined = FALSE
    /\ reverseDestroy \in BOOLEAN
    /\ lastCall = Call_("none", 0, <<>>, FALSE, FALSE, "")
    /\ MiriErrorFlag = FALSE
    /\ StackTrace = <<>>
    /\ mem = [p \in {} |-> GenericValue]
    /\ running = FALSE

\* The oracle's wrapper was registered once before the driver starts.
WrapperRegistered ==
    /\ MiriWrapper = 1
    /\ emitGlobalsCalls = 1

Init ==
    /\ InitInterpreter
    /\ WrapperRegistered
    /\ pureIn = <<>>
    /\ pureOut = <<>>

Next ==
    \/ \E id \in ThreadIDs, e \in Entries : createThread(id, e[1], e[2])
    \/ \E id \in ThreadIDs, p \in Pendings : stepThread(id, p)
    \/ \E id \in ThreadIDs : terminateThread(id)

Spec == Init /\ [][Next]_vars

\* The driver of the stock entry point: threads are created and stepped as
\* before, and runFunction runs the current thread inside run().
NextRun ==
    \/ \E id \in ThreadIDs, e \in Entries : createThread(id, e[1], e[2])
    \/ \E id \in ThreadIDs, p \in Pendings : stepThread(id, p)
    \/ \E e \in Entries : runFunction(e[1], e[2])
    \/ runStep

SpecRun == Init /\ [][NextRun]_vars

\* The driver on the functions with intrinsics and variable arguments.
OpsEntries ==
    { <<"intr", <<>>>>, <<"vcall", <<>>>>,
      <<"va", <<IntGV(32, 1), IntGV(32, 10), IntGV(32, 20)>>>>,
      <<"va", <<IntGV(32, 0)>>>>, <<"outer", <<>>>> }

NextOps ==
    \/ \E id \in ThreadIDs, e \in OpsEntries : createThread(id, e[1], e[2])
    \/ \E id \in ThreadIDs, p \in Pendings : stepThread(id, p)
    \/ \E id \in ThreadIDs : terminateThread(id)

SpecOps == Init /\ [][NextOps]_vars


-----------------------------------------------------------------------------
(* Registration of the oracle's wrapper. *)

\* The wrapper pointers the driver registers; none is null.
Wrappers == {1, 2}

\* An emitGlobals() call at every registration.
emitGlobalsAlways(PrevWrapper) == 1

\* if (PrevWrapper == nullptr) ExecEngine->emitGlobals();
emitGlobalsIfFirst(PrevWrapper) == IF PrevWrapper = 0 THEN 1 ELSE 0

\* LLVMExecutionEngineSetMiriInterpCxWrapper(EE, MiriWrapper)
SetMiriInterpCxWrapper(Wrapper) ==
    /\ ~fatal /\ ~undefined /\ ~running
    /\ emitGlobalsCalls < MaxEmits
    /\ MiriWrapper' = Wrapper
    /\ emitGlobalsCalls' = emitGlobalsCalls + emitGlobalsIfFirst(MiriWrapper)
    /\ lastCall' = Call_("SetMiriInterpCxWrapper", 0, <<>>, TRUE, FALSE, "")
    /\ UNCHANGED <<Threads, CurrentThreadID, lastHooks, live, badFree, creates,
                   fatal, undefined, reverseDestroy, MiriErrorFlag,
                   StackTrace, mem, running, pureIn, pureOut>>

\* The engine as constructed, no wrapper registered yet; the driver
\* registers a wrapper before it creates threads and may register again at
\* any time between its calls.
InitBind ==
    /\ InitInterpreter
    /\ MiriWrapper = 0
    /\ emitGlobalsCalls = 0
    /\ pureIn = <<>>
    /\ pureOut = <<>>

BindEntries ==
    { <<"main", <<>>>>, <<"work", <<IntGV(32, 7)>>>>, <<"slot", <<>>>> }

NextBind ==
    \/ \E w \in Wrappers : SetMiriInterpCxWrapper(w)
    \/ \E id \in ThreadIDs, e \in BindEntries :
          MiriWrapper # 0 /\ createThread(id, e[1], e[2])
    \/ \E id \in ThreadIDs, p \in Pendings :
          MiriWrapper # 0 /\ stepThread(id, p)
    \/ \E id \in ThreadIDs : MiriWrapper # 0 /\ terminateThread(id)

SpecBind == InitBind /\ [][NextBind]_vars

-----------------------------------------------------------------------------
(* The operands the integer instructions are evaluated on, on their own. *)

\* The operands the instructions are tried on.
ShiftWidths == {1, 3, 5, 7, 8, 32, 33}

ArithWidths == {1, 3, 7, 8, 33, 64, 128}

\* Every value of a small width; of a large one, the values around its
\* carries and borders.
SampleBits(w) ==
    IF w <= 3 THEN { BitsAt(w, S) : S \in SUBSET (0..(w - 1)) }
    ELSE { BitsAt(w, S) :
              S \in { {}, {0}, {1, 2}, 0..(w - 1), {w - 1}, 0..(w - 2),
                      {0, w - 1}, {i \in 0..(w - 1) : i % 2 = 0} } }

ShiftAmounts(w) ==
    { s \in {0, 1, 2, w - 1, w, w + 1, 6, 15, 33, 40} :
          s >= 0 /\ (w >= 30 \/ s < 2 ^ w) }

ShiftInputs ==
    UNION { { [kind |-> "shift", op |-> op, vec |-> FALSE,
               Src1 |-> BitsGV(x), Src2 |-> BitsGV(NatBits(w, s))] :
                 x \in { BitsAt(w, S) :
                            S \in { {0}, 0..(w - 1), {w - 1}, {0, w - 1} } },
                 s \in ShiftAmounts(w) } \cup
            { [kind |-> "shift", op |-> op, vec |-> TRUE,
               Src1 |-> VectorGV(<<BitsGV(BitsAt(w, {0, w - 1})),
                                   BitsGV(BitsAt(w, 0..(w - 1)))>>),
               Src2 |-> VectorGV(<<BitsGV(NatBits(w, s1)),
                                   BitsGV(NatBits(w, s2))>>)] :
                 s1 \in { s \in ShiftAmounts(w) : w >= 7 /\ s <= w + 1 },
                 s2 \in { s \in ShiftAmounts(w) : w >= 7 /\ s >= w - 1 } }
          : op \in {"shl", "lshr", "ashr"}, w \in ShiftWidths }

ArithInputs ==
    UNION { { [kind |-> "arith", op |-> "add", vec |-> FALSE,
               Src1 |-> BitsGV(a), Src2 |-> BitsGV(b)] :
                 a \in SampleBits(w), b \in SampleBits(w) }
          : w \in ArithWidths }

\* A shift instruction is executed.  An amount above the width aborts a
\* build with assertions.
stepShift ==
    /\ pureIn \in ShiftInputs /\ pureOut = <<>>
    /\ \E aborts \in
            (IF Overshift(visitShift(pureIn.op, pureIn.Src1, pureIn.Src2,
                                     pureIn.vec))
             THEN BOOLEAN ELSE {FALSE}) :
          pureOut' = <<[Dest |-> visitShift(pureIn.op, pureIn.Src1,
                                            pureIn.Src2, pureIn.vec),
                        aborts |-> aborts]>>
    /\ UNCHANGED <<Threads, CurrentThreadID, lastHooks, live, badFree, creates,
                   fatal, undefined, reverseDestroy, lastCall, MiriErrorFlag,
                   StackTrace, mem, running, pureIn, MiriWrapper,
                   emitGlobalsCalls>>

\* %s = add a, b; %d = sub %s, b; and, for b # 0, %q = udiv a, b;
\* %r = urem a, b; %m = mul %q, b; %c = add %m, %r.
arithDivPart(a, b, q, r) ==
    [q |-> q, r |-> r,
     c |-> binaryOperator("add", binaryOperator("mul", q, b), r)]

arithProgram(a, b, s) ==
    [s |-> s, d |-> binaryOperator("sub", s, b),
     div |-> IF b.IntVal = BitsAt(Len(b.IntVal), {})
             THEN <<>>
             ELSE <<arithDivPart(a, b, binaryOperator("udiv", a, b),
                                 binaryOperator("urem", a, b))>>]

stepBinaryOperator ==
    /\ pureIn \in ArithInputs /\ pureOut = <<>>
    /\ pureOut' = <<arithProgram(pureIn.Src1, pureIn.Src2,
                       binaryOperator("add", pureIn.Src1, pureIn.Src2))>>
    /\ UNCHANGED <<Threads, CurrentThreadID, lastHooks, live, badFree, creates,
                   fatal, undefined, reverseDestroy, lastCall, MiriErrorFlag,
                   StackTrace, mem, running, pureIn, MiriWrapper,
                   emitGlobalsCalls>>

-----------------------------------------------------------------------------
(* Floating-point compares.  A float or double is NaN or one of a few
   numbers; FloatVal and DoubleVal are the same storage of a GenericValue,
   zeroed by its constructor. *)

NaN == [nan |-> TRUE, v |-> 0]

Num(v) == [nan |-> FALSE, v |-> v]

FloatGV(x) == [DoubleVal |-> x, AggregateVal |-> <<>>]

FloatVectorGV(lanes) == [DoubleVal |-> Num(0), AggregateVal |-> lanes]

\* The C++ comparison operators on float and double.
CCmp(OP, x, y) ==
    CASE OP = "==" -> ~x.nan /\ ~y.nan /\ x.v = y.v
      [] OP = "!=" -> x.nan \/ y.nan \/ x.v # y.v
      [] OP = "<"  -> ~x.nan /\ ~y.nan /\ x.v < y.v
      [] OP = "<=" -> ~x.nan /\ ~y.nan /\ x.v <= y.v
      [] OP = ">"  -> ~x.nan /\ ~y.nan /\ x.v > y.v
      [] OP = ">=" -> ~x.nan /\ ~y.nan /\ x.v >= y.v

\* APInt(1, b) in the IntVal of a fresh GenericValue
BoolGV(b) == [IntVal |-> IF b THEN 1 ELSE 0, AggregateVal |-> <<>>]

\* X.TYVal != X.TYVal || Y.TYVal != Y.TYVal
EitherNaN(X, Y) ==
    CCmp("!=", X.DoubleVal, X.DoubleVal) \/ CCmp("!=", Y.DoubleVal, Y.DoubleVal)

\* IMPLEMENT_FCMP and IMPLEMENT_VECTOR_FCMP
IMPLEMENT_FCMP(OP, Src1, Src2, Ty) ==
    IF Ty.vec
    THEN [IntVal |-> 0,
          AggregateVal |->
              [i \in 1..Len(Src1.AggregateVal) |->
                  BoolGV(CCmp(OP, Src1.AggregateVal[i].DoubleVal,
                              Src2.AggregateVal[i].DoubleVal))]]
    ELSE BoolGV(CCmp(OP, Src1.DoubleVal, Src2.DoubleVal))

executeFCMP_OEQ(Src1, Src2, Ty) == IMPLEMENT_FCMP("==", Src1, Src2, Ty)

executeFCMP_OLE(Src1, Src2, Ty) == IMPLEMENT_FCMP("<=", Src1, Src2, Ty)

executeFCMP_OGE(Src1, Src2, Ty) == IMPLEMENT_FCMP(">=", Src1, Src2, Ty)

executeFCMP_OLT(Src1, Src2, Ty) == IMPLEMENT_FCMP("<", Src1, Src2, Ty)

executeFCMP_OGT(Src1, Src2, Ty) == IMPLEMENT_FCMP(">", Src1, Src2, Ty)

\* MASK_VECTOR_NANS: a lane with a NaN gets FLAG, any other lane !FLAG.
MASK_VECTOR_NANS(X, Y, FLAG) ==
    [i \in 1..Len(X.AggregateVal) |->
        BoolGV(IF EitherNaN(X.AggregateVal[i], Y.AggregateVal[i])
               THEN FLAG ELSE ~FLAG)]

\* The lanes of Dest whose mask lane holds m are set to m.
maskLanes(DestMask, Dest, m) ==
    [Dest EXCEPT !.AggregateVal =
        [i \in 1..Len(Dest.AggregateVal) |->
            IF DestMask[i].IntVal = m THEN BoolGV(m = 1)
            ELSE Dest.AggregateVal[i]]]

\* A compare for "ordered and not equal" that is the bare != of C++.
executeFCMP_ONE_Bare(Src1, Src2, Ty) == IMPLEMENT_FCMP("!=", Src1, Src2, Ty)

\* executeFCMP_ONE: IMPLEMENT_SCALAR_NANS reads the scalar storage whatever
\* the type is; a vector is masked lane by lane.
executeFCMP_ONE(Src1, Src2, Ty) ==
    IF EitherNaN(Src1, Src2) THEN BoolGV(FALSE)
    ELSE IF Ty.vec
    THEN maskLanes(MASK_VECTOR_NANS(Src1, Src2, FALSE),
                   IMPLEMENT_FCMP("!=", Src1, Src2, Ty), 0)
    ELSE IMPLEMENT_FCMP("!=", Src1, Src2, Ty)

\* IMPLEMENT_UNORDERED, MASK_VECTOR_NANS and IMPLEMENT_VECTOR_UNORDERED in
\* front of the ordered compare, whose result FUNC(Src1, Src2, Ty) is Ordered.
Unordered(Ordered, Src1, Src2, Ty) ==
    IF EitherNaN(Src1, Src2) THEN BoolGV(TRUE)
    ELSE IF Ty.vec
    THEN maskLanes(MASK_VECTOR_NANS(Src1, Src2, TRUE), Ordered, 1)
    ELSE Ordered

executeFCMP_UEQ(Src1, Src2, Ty) == Unordered(executeFCMP_OEQ(Src1, Src2, Ty), Src1, Src2, Ty)

executeFCMP_UNE(Src1, Src2, Ty) == Unordered(executeFCMP_ONE(Src1, Src2, Ty), Src1, Src2, Ty)

executeFCMP_ULE(Src1, Src2, Ty) == Unordered(executeFCMP_OLE(Src1, Src2, Ty), Src1, Src2, Ty)

executeFCMP_UGE(Src1, Src2, Ty) == Unordered(executeFCMP_OGE(Src1, Src2, Ty), Src1, Src2, Ty)

executeFCMP_ULT(Src1, Src2, Ty) == Unordered(executeFCMP_OLT(Src1, Src2, Ty), Src1, Src2, Ty)

executeFCMP_UGT(Src1, Src2, Ty) == Unordered(executeFCMP_OGT(Src1, Src2, Ty), Src1, Src2, Ty)

executeFCMP_ORD(Src1, Src2, Ty) ==
    IF Ty.vec
    THEN [IntVal |-> 0,
          AggregateVal |->
              [i \in 1..Len(Src1.AggregateVal) |->
                  BoolGV(/\ CCmp("==", Src1.AggregateVal[i].DoubleVal,
                                 Src1.AggregateVal[i].DoubleVal)
                         /\ CCmp("==", Src2.AggregateVal[i].DoubleVal,
                                 Src2.AggregateVal[i].DoubleVal))]]
    ELSE BoolGV(/\ CCmp("==", Src1.DoubleVal, Src1.DoubleVal)
                /\ CCmp("==", Src2.DoubleVal, Src2.DoubleVal))

executeFCMP_UNO(Src1, Src2, Ty) ==
    IF Ty.vec
    THEN [IntVal |-> 0,
          AggregateVal |->
              [i \in 1..Len(Src1.AggregateVal) |->
                  BoolGV(\/ CCmp("!=", Src1.AggregateVal[i].DoubleVal,
                                 Src1.AggregateVal[i].DoubleVal)
                         \/ CCmp("!=", Src2.AggregateVal[i].DoubleVal,
                                 Src2.AggregateVal[i].DoubleVal))]]
    ELSE BoolGV(\/ CCmp("!=", Src1.DoubleVal, Src1.DoubleVal)
                \/ CCmp("!=", Src2.DoubleVal, Src2.DoubleVal))

\* visitFCmpInst: the switch over the predicate.
visitFCmpInst(Predicate, Src1, Src2, Ty) ==
    CASE Predicate = "ord" -> executeFCMP_ORD(Src1, Src2, Ty)
      [] Predicate = "uno" -> executeFCMP_UNO(Src1, Src2, Ty)
      [] Predicate = "ueq" -> executeFCMP_UEQ(Src1, Src2, Ty)
      [] Predicate = "oeq" -> executeFCMP_OEQ(Src1, Src2, Ty)
      [] Predicate = "une" -> executeFCMP_UNE(Src1, Src2, Ty)
      [] Predicate = "one" -> executeFCMP_ONE(Src1, Src2, Ty)
      [] Predicate = "ult" -> executeFCMP_ULT(Src1, Src2, Ty)
      [] Predicate = "olt" -> executeFCMP_OLT(Src1, Src2, Ty)
      [] Predicate = "ugt" -> executeFCMP_UGT(Src1, Src2, Ty)
      [] Predicate = "ogt" -> executeFCMP_OGT(Src1, Src2, Ty)
      [] Predicate = "ule" -> executeFCMP_ULE(Src1, Src2, Ty)
      [] Predicate = "ole" -> executeFCMP_OLE(Src1, Src2, Ty)
      [] Predicate = "uge" -> executeFCMP_UGE(Src1, Src2, Ty)
      [] Predicate = "oge" -> executeFCMP_OGE(Src1, Src2, Ty)

OrderedPredicates == {"oeq", "one", "olt", "ole", "ogt", "oge", "ord"}

UnorderedPredicates == {"ueq", "une", "ult", "ule", "ugt", "uge", "uno"}

FloatSamples == {NaN, Num(-1), Num(0), Num(2)}

FloatLanes == { <<x, y>> : x \in {NaN, Num(0), Num(2)}, y \in {NaN, Num(0), Num(2)} }

FCmpInputs ==
    { [kind |-> "fcmp", op |-> op, vec |-> FALSE,
       Ty |-> [vec |-> FALSE, elt |-> elt],
       Src1 |-> FloatGV(x), Src2 |-> FloatGV(y)] :
         op \in OrderedPredicates \cup UnorderedPredicates,
         elt \in {"float", "double"}, x \in FloatSamples, y \in FloatSamples }
    \cup
    { [kind |-> "fcmp", op |-> op, vec |-> TRUE,
       Ty |-> [vec |-> TRUE, elt |-> elt],
       Src1 |-> FloatVectorGV(<<FloatGV(X[1]), FloatGV(X[2])>>),
       Src2 |-> FloatVectorGV(<<FloatGV(Y[1]), FloatGV(Y[2])>>)] :
         op \in OrderedPredicates \cup UnorderedPredicates,
         elt \in {"float", "double"}, X \in FloatLanes, Y \in FloatLanes }

stepFCmpInst ==
    /\ pureIn \in FCmpInputs /\ pureOut = <<>>
    /\ pureOut' = <<visitFCmpInst(pureIn.op, pureIn.Src1, pureIn.Src2,
                                  pureIn.Ty)>>
    /\ UNCHANGED <<Threads, CurrentThreadID, lastHooks, live, badFree, creates,
                   fatal, undefined, reverseDestroy, lastCall, MiriErrorFlag,
                   StackTrace, mem, running, pureIn, MiriWrapper,
                   emitGlobalsCalls>>

-----------------------------------------------------------------------------
(* Bitcast between integer vectors.  The data layout's endianness is an
   input of the instruction. *)

\* The step of ShiftAmt: += isLittleEndian ? BitSize : -BitSize.  ShiftAmt is
\* unsigned; it wraps only after its last use, and is not read again.
ShiftStep(isLittleEndian, BitSize) ==
    IF isLittleEndian THEN BitSize ELSE 0 - BitSize

\* The inner loop of the narrowing branch: Ratio source lanes, from SrcElt
\* on, are or-ed into one destination lane.
RECURSIVE packLane(_, _, _, _, _, _, _)
packLane(TempSrc, SrcElt, j, Ratio, ShiftAmt, step, Elt) ==
    IF j >= Ratio THEN Elt
    ELSE packLane(TempSrc, SrcElt + 1, j + 1, Ratio, ShiftAmt + step, step,
                  APOr(Elt, APshl(APzext(TempSrc[SrcElt + 1], Len(Elt)),
                                  ShiftAmt)))

\* The inner loop of the widening branch: one source lane gives Ratio
\* destination lanes.
unpackLane(Src, j, ShiftAmt, step, SrcBitSize, DstBitSize) ==
    IF DstBitSize < SrcBitSize
    THEN APtrunc(APlshr(Src, ShiftAmt + j * step), DstBitSize)
    ELSE APlshr(Src, ShiftAmt + j * step)

\* executeBitCastInst, the vector branch on integer lanes: TempSrc holds the
\* IntVal of the source lanes, SrcNum is their number, DstNum follows from
\* the sizes.
bitCastStart(isLittleEndian, BitSize, Ratio) ==
    IF isLittleEndian THEN 0 ELSE BitSize * (Ratio - 1)

bitCastNarrow(TempSrc, SrcBitSize, DstBitSize, DstNum, Ratio, isLittleEndian) ==
    [i \in 1..DstNum |->
        BitsGV(packLane(TempSrc, (i - 1) * Ratio, 0, Ratio,
                        bitCastStart(isLittleEndian, SrcBitSize, Ratio),
                        ShiftStep(isLittleEndian, SrcBitSize),
                        APzext(<<0>>, DstBitSize)))]

bitCastWiden(TempSrc, SrcBitSize, DstBitSize, Ratio, isLittleEndian) ==
    [k \in 1..(Len(TempSrc) * Ratio) |->
        BitsGV(unpackLane(TempSrc[(k - 1) \div Ratio + 1], (k - 1) % Ratio,
                          bitCastStart(isLittleEndian, DstBitSize, Ratio),
                          ShiftStep(isLittleEndian, DstBitSize),
                          SrcBitSize, DstBitSize))]

bitCastLanes(TempSrc, SrcBitSize, DstBitSize, DstNum, isLittleEndian) ==
    IF DstNum < Len(TempSrc)
    THEN bitCastNarrow(TempSrc, SrcBitSize, DstBitSize, DstNum,
                       Len(TempSrc) \div DstNum, isLittleEndian)
    ELSE bitCastWiden(TempSrc, SrcBitSize, DstBitSize,
                      DstNum \div Len(TempSrc), isLittleEndian)

\* The whole instruction on a vector source and a vector destination type:
\* a result, or the fatal error "Invalid BitCast".
executeBitCastInst(Src, SrcBitSize, DstBitSize, isLittleEndian) ==
    IF Len(Src.AggregateVal) * SrcBitSize
         # ((Len(Src.AggregateVal) * SrcBitSize) \div DstBitSize) * DstBitSize
    THEN [fatal |-> TRUE, Dest |-> VectorGV(<<>>)]
    ELSE [fatal |-> FALSE,
          Dest |-> VectorGV(bitCastLanes(
                       [i \in 1..Len(Src.AggregateVal) |->
                           Src.AggregateVal[i].IntVal],
                       SrcBitSize, DstBitSize,
                       (Len(Src.AggregateVal) * SrcBitSize) \div DstBitSize,
                       isLittleEndian))]

\* The vectors a bitcast is tried on: <4 x i32> {0,1,2,3} and its <2 x i64>,
\* every <4 x i2> and <2 x i4>, and vectors of 24 bits in lanes of 8 and 12.
BitCastInputs ==
    { [kind |-> "bitcast", Src |-> VectorGV(lanes), SrcBitSize |-> sz[1],
       DstBitSize |-> sz[2], isLittleEndian |-> le] :
         sz \in {<<32, 64>>}, le \in BOOLEAN,
         lanes \in { <<BitsGV(NatBits(32, 0)), BitsGV(NatBits(32, 1)),
                       BitsGV(NatBits(32, 2)), BitsGV(NatBits(32, 3))>> } }
    \cup
    { [kind |-> "bitcast", Src |-> VectorGV(lanes), SrcBitSize |-> sz[1],
       DstBitSize |-> sz[2], isLittleEndian |-> le] :
         sz \in {<<64, 32>>}, le \in BOOLEAN,
         lanes \in { <<BitsGV(BitsAt(64, {32})), BitsGV(BitsAt(64, {1, 32, 33}))>>,
                     <<BitsGV(BitsAt(64, {0, 63})), BitsGV(BitsAt(64, {31}))>> } }
    \cup
    { [kind |-> "bitcast",
       Src |-> VectorGV([i \in 1..4 |-> BitsGV(NatBits(2, l[i]))]),
       SrcBitSize |-> 2, DstBitSize |-> d, isLittleEndian |-> le] :
         l \in [1..4 -> {0, 1, 3}], d \in {2, 4, 8}, le \in BOOLEAN }
    \cup
    { [kind |-> "bitcast",
       Src |-> VectorGV([i \in 1..2 |-> BitsGV(NatBits(4, l[i]))]),
       SrcBitSize |-> 4, DstBitSize |-> 2, isLittleEndian |-> le] :
         l \in [1..2 -> {0, 1, 6, 9, 15}], le \in BOOLEAN }
    \cup
    { [kind |-> "bitcast",
       Src |-> VectorGV([i \in 1..3 |-> BitsGV(NatBits(8, l[i]))]),
       SrcBitSize |-> 8, DstBitSize |-> 12, isLittleEndian |-> le] :
         l \in [1..3 -> {1, 2, 255}], le \in BOOLEAN }
    \cup
    { [kind |-> "bitcast",
       Src |-> VectorGV([i \in 1..2 |-> BitsGV(NatBits(12, l[i]))]),
       SrcBitSize |-> 12, DstBitSize |-> 8, isLittleEndian |-> le] :
         l \in [1..2 -> {1, 513, 4095}], le \in BOOLEAN }

\* %d = bitcast A %s to B; %b = bitcast B %d to A, where the first did not
\* end the program.
bitCastBack(in, d) ==
    IF d.fatal THEN <<>>
    ELSE <<executeBitCastInst(d.Dest, in.DstBitSize, in.SrcBitSize,
                              in.isLittleEndian)>>

stepBitCast ==
    /\ pureIn \in BitCastInputs /\ pureOut = <<>>
    /\ pureOut' = <<[d |-> executeBitCastInst(pureIn.Src, pureIn.SrcBitSize,
                              pureIn.DstBitSize, pureIn.isLittleEndian),
                     b |-> bitCastBack(pureIn,
                              executeBitCastInst(pureIn.Src, pureIn.SrcBitSize,
                                  pureIn.DstBitSize, pureIn.isLittleEndian))]>>
    /\ UNCHANGED <<Threads, CurrentThreadID, lastHooks, live, badFree, creates,
                   fatal, undefined, reverseDestroy, lastCall, MiriErrorFlag,
                   StackTrace, mem, running, pureIn, MiriWrapper,
                   emitGlobalsCalls>>

-----------------------------------------------------------------------------
(* Pointers through bitcast, insertvalue and extractvalue.  A GenericValue
   here carries its pointer payload, its provenance, its APInt and its
   aggregate members. *)

FullGV(IntVal, PointerVal, Provenance, AggregateVal) ==
    [IntVal |-> IntVal, PointerVal |-> PointerVal, Provenance |-> Provenance,
     AggregateVal |-> AggregateVal]

\* GenericValue(): a 1-bit zero, a zeroed payload and the null provenance.
DefaultGV == FullGV(<<0>>, 0, NULL_PROVENANCE, <<>>)

PtrGV(addr, prov) == FullGV(<<0>>, addr, prov, <<>>)

\* executeBitCastInst, scalar pointer to pointer, and what it would be
\* without the provenance line.
pointerBitCastAddressOnly(Src) ==
    [DefaultGV EXCEPT !.PointerVal = Src.PointerVal]

pointerBitCast(Src) ==
    [DefaultGV EXCEPT !.PointerVal = Src.PointerVal,
                      !.Provenance = Src.Provenance]

\* The switch on the indexed type's id that both instructions end in: the
\* members of Src that belong to the type are assigned to Dest.
assignIndexed(Dest, Src, TypeID) ==
    CASE TypeID = "Integer" -> [Dest EXCEPT !.IntVal = Src.IntVal]
      [] TypeID \in {"Array", "Struct", "FixedVector"} ->
            [Dest EXCEPT !.AggregateVal = Src.AggregateVal]
      [] TypeID = "Pointer" ->
            [Dest EXCEPT !.PointerVal = Src.PointerVal,
                         !.Provenance = Src.Provenance]

\* pSrc = &pSrc->AggregateVal[*IdxBegin], Num times.
RECURSIVE memberAt(_, _, _)
memberAt(Src, Idxs, i) ==
    IF i > Len(Idxs) THEN Src
    ELSE memberAt(Src.AggregateVal[Idxs[i] + 1], Idxs, i + 1)

visitExtractValueInst(Src, Idxs, TypeID) ==
    assignIndexed(DefaultGV, memberAt(Src, Idxs, 1), TypeID)

\* Dest = Src1, then the member pDest points at is assigned from Src2.
RECURSIVE insertAt(_, _, _, _, _)
insertAt(Dest, Idxs, i, Src2, TypeID) ==
    IF i > Len(Idxs) THEN assignIndexed(Dest, Src2, TypeID)
    ELSE [Dest EXCEPT !.AggregateVal[Idxs[i] + 1] =
                          insertAt(@, Idxs, i + 1, Src2, TypeID)]

visitInsertValueInst(Src1, Src2, Idxs, TypeID) ==
    insertAt(Src1, Idxs, 1, Src2, TypeID)

\* Pointers, with and without provenance, and aggregates with pointer
\* members at the paths given: { ptr, i8 }, { i8, { ptr, ptr } }, [2 x ptr].
PointerSamples ==
    { PtrGV(a, pr) : a \in {0, 16, 24},
                     pr \in { NULL_PROVENANCE, [alloc_id |-> 1, tag |-> 1],
                              [alloc_id |-> 2, tag |-> 5] } }

ByteGV(n) == FullGV(NatBits(8, n), 0, NULL_PROVENANCE, <<>>)

AggGV(members) == FullGV(<<0>>, 0, NULL_PROVENANCE, members)

AggregateSamples ==
    { [Agg |-> AggGV(<<q, ByteGV(7)>>), Idxs |-> <<0>>] : q \in PointerSamples }
    \cup
    { [Agg |-> AggGV(<<ByteGV(3), AggGV(<<q, PtrGV(8, [alloc_id |-> 3, tag |-> 2])>>)>>),
       Idxs |-> path] : q \in PointerSamples, path \in {<<1, 0>>, <<1, 1>>} }
    \cup
    { [Agg |-> AggGV(<<PtrGV(8, [alloc_id |-> 3, tag |-> 2]), q>>),
       Idxs |-> path] : q \in PointerSamples, path \in {<<0>>, <<1>>} }

PointerInputs ==
    { [kind |-> "pointer", p |-> p, Agg |-> s.Agg, Idxs |-> s.Idxs] :
         p \in PointerSamples, s \in AggregateSamples }

\* %c = bitcast ptr %p; %a = insertvalue %agg, %c, path;
\* %e = extractvalue %a, path; %r = bitcast ptr %e.
pointerProgram(a, Idxs) ==
    [a |-> a,
     r |-> pointerBitCast(visitExtractValueInst(a, Idxs, "Pointer"))]

stepPointerRoundTrip ==
    /\ pureIn \in PointerInputs /\ pureOut = <<>>
    /\ pureOut' = <<pointerProgram(
                       visitInsertValueInst(pureIn.Agg,
                           pointerBitCast(pureIn.p), pureIn.Idxs, "Pointer"),
                       pureIn.Idxs)>>
    /\ UNCHANGED <<Threads, CurrentThreadID, lastHooks, live, badFree, creates,
                   fatal, undefined, reverseDestroy, lastCall, MiriErrorFlag,
                   StackTrace, mem, running, pureIn, MiriWrapper,
                   emitGlobalsCalls>>

-----------------------------------------------------------------------------
(* getelementptr.  The index path is given as the type iterator yields it:
   a struct step with the layout's offset of the selected field, or a
   sequence step with the alloc size of the indexed type and the index
   operand's value.  Total is a uint64_t, kept as 64 bits. *)

\* The index as an int64_t, and what it would be without the int32_t cast.
\* A width other than 32 or 64 fails the assertion of a build that has them.
gepIndexZExt(IntVal, BitWidth) == APzext(IntVal, 64)

gepIndex(IntVal, BitWidth) ==
    IF BitWidth = 32
    THEN APsext(APtrunc(APzext(IntVal, 64), 32), 64)
    ELSE APzext(IntVal, 64)

gepStep(Total, step) ==
    IF step.isStruct
    THEN APAdd(Total, NatBits(64, step.ElementOffset))
    ELSE APAdd(Total, APMul(NatBits(64, step.TypeAllocSize),
                            gepIndex(step.IntVal, Len(step.IntVal))))

RECURSIVE gepTotal(_, _, _)
gepTotal(Path, i, Total) ==
    IF i > Len(Path) THEN Total
    ELSE gepTotal(Path, i + 1, gepStep(Total, Path[i]))

\* executeGEPOperation with the oracle present: the hook gets the operand's
\* pointer with provenance and Total, and what it returns is the result.
executeGEPOperation(OperandValue, Path, hookResult) ==
    [call |-> [hook |-> "gep", ptr |-> GVTOMiriPointer(OperandValue),
               Total |-> gepTotal(Path, 1, NatBits(64, 0))],
     Result |-> MiriPointerTOGV(hookResult)]

\* Two's complement of a small number, at a width.
IntBits(w, n) ==
    IF n >= 0 THEN NatBits(w, n)
    ELSE [i \in 1..w |-> 1 - NatBits(w, (0 - n) - 1)[i]]

StructStep(off) == [isStruct |-> TRUE, ElementOffset |-> off]

SeqStep(size, w, idx) ==
    [isStruct |-> FALSE, TypeAllocSize |-> size, IntVal |-> IntBits(w, idx)]

\* Index paths: gep i32, %p, i64 3; a single index of either width and
\* sign; array-of-struct paths.
GepPaths ==
    { <<SeqStep(sz, w, idx)>> :
         sz \in {1, 4, 24}, w \in {32, 64}, idx \in {0, 3, -1, -7, 1000} }
    \cup
    { <<SeqStep(24, w1, i1), StructStep(off), SeqStep(4, w2, i2)>> :
         w1 \in {32, 64}, i1 \in {0, 2, -1}, off \in {0, 8},
         w2 \in {32, 64}, i2 \in {1, -2} }

GepPointers ==
    { [addr |-> a, prov |-> pr] :
         a \in {16, 4096},
         pr \in {NULL_PROVENANCE, [alloc_id |-> 1, tag |-> 4]} }

GepInputs ==
    { [kind |-> "gep", Ptr |-> MiriPointerTOGV(p), Path |-> path] :
         p \in GepPointers, path \in GepPaths }

stepGEP ==
    /\ pureIn \in GepInputs /\ pureOut = <<>>
    /\ \E hookResult \in GepPointers :
          pureOut' = <<executeGEPOperation(pureIn.Ptr, pureIn.Path,
                                           hookResult)>>
    /\ UNCHANGED <<Threads, CurrentThreadID, lastHooks, live, badFree, creates,
                   fatal, undefined, reverseDestroy, lastCall, MiriErrorFlag,
                   StackTrace, mem, running, pureIn, MiriWrapper,
                   emitGlobalsCalls>>

-----------------------------------------------------------------------------
(* The funnel shift intrinsics on scalar integers. *)

FshWidths == {1, 3, 8, 32}

FshInputs ==
    UNION { { [kind |-> "fsh", isLeft |-> l, Src1 |-> BitsGV(a),
               Src2 |-> BitsGV(b), Src3 |-> BitsGV(NatBits(w, c))] :
                 a \in SampleBits(w), b \in SampleBits(w),
                 c \in { n \in {0, 1, 2, 5, 7, 8, 31, 33} :
                            w >= 30 \/ n < 2 ^ w },
                 l \in BOOLEAN }
          : w \in FshWidths }

\* executeIntrinsicFshInst on an integer type; the operands as the frame
\* holds them are kept beside the result.
stepFsh ==
    /\ pureIn \in FshInputs /\ pureOut = <<>>
    /\ pureOut' = <<[Dest |-> executeIntrinsicFshIntInst(pureIn.Src1,
                                  pureIn.Src2, pureIn.Src3, pureIn.isLeft),
                     Src1 |-> pureIn.Src1, Src2 |-> pureIn.Src2,
                     Src3 |-> pureIn.Src3]>>
    /\ UNCHANGED <<Threads, CurrentThreadID, lastHooks, live, badFree, creates,
                   fatal, undefined, reverseDestroy, lastCall, MiriErrorFlag,
                   StackTrace, mem, running, pureIn, MiriWrapper,
                   emitGlobalsCalls>>

-----------------------------------------------------------------------------
(* ptrtoint.  The oracle's ptr_to_int hook returns a uint64_t. *)

MIRI_POINTER_BIT_WIDTH == 64

\* APInt(numBits, val) from a uint64_t given by its 64 bits.
APIntOfWord(numBits, val) ==
    [i \in 1..numBits |-> IF i <= 64 THEN val[i] ELSE 0]

\* executePtrToIntInst: DstTy is not read.
executePtrToIntInst(Src, DstTy, SrcAsInt) ==
    [call |-> [hook |-> "ptr_to_int", ptr |-> GVTOMiriPointer(Src)],
     Dest |-> BitsGV(APIntOfWord(MIRI_POINTER_BIT_WIDTH, SrcAsInt))]

PtrToIntWidths == {8, 32, 64, 128}

PtrToIntInputs ==
    { [kind |-> "ptrtoint", Src |-> MiriPointerTOGV(p), DstTy |-> w] :
         p \in GepPointers, w \in PtrToIntWidths }

\* visitPtrToIntInst, the hook answering with any address.
stepPtrToInt ==
    /\ pureIn \in PtrToIntInputs /\ pureOut = <<>>
    /\ \E SrcAsInt \in { BitsAt(64, S) :
                           S \in { {}, {4}, {4, 12}, {3, 31, 32, 63},
                                   0..63 } } :
          pureOut' = <<[SrcAsInt |-> SrcAsInt,
                        r |-> executePtrToIntInst(pureIn.Src, pureIn.DstTy,
                                                  SrcAsInt)]>>
    /\ UNCHANGED <<Threads, CurrentThreadID, lastHooks, live, badFree, creates,
                   fatal, undefined, reverseDestroy, lastCall, MiriErrorFlag,
                   StackTrace, mem, running, pureIn, MiriWrapper,
                   emitGlobalsCalls>>

-----------------------------------------------------------------------------
(* alloca.  The element count is the operand's APInt; the alloc size of
   the type is a uint64_t given by its 64 bits. *)

\* unsigned NumElements * TypeSize, both cut to 32 bits, and max(1U, .),
\* widened to the uint64_t MemToAlloc.
allocaMemToAlloc(NumElements, TypeAllocSize) ==
    IF \A i \in 1..32 :
           APMul(APtrunc(APzext(NumElements, 64), 32),
                 APtrunc(TypeAllocSize, 32))[i] = 0
    THEN NatBits(64, 1)
    ELSE APzext(APMul(APtrunc(APzext(NumElements, 64), 32),
                      APtrunc(TypeAllocSize, 32)), 64)

\* The same with the product taken in 64 bits.
allocaMemToAllocWide(NumElements, TypeAllocSize) ==
    IF \A i \in 1..64 :
           APMul(APzext(NumElements, 64), TypeAllocSize)[i] = 0
    THEN NatBits(64, 1)
    ELSE APMul(APzext(NumElements, 64), TypeAllocSize)

\* visitAllocaInst on a frame's holder: the hook call, the result and the
\* holder after it.
allocaInst(NumElements, TypeAllocSize, Alignment, MiriAllocas, MiriPointerVal) ==
    [calls |-> <<[hook |-> "malloc",
                  size |-> allocaMemToAlloc(NumElements, TypeAllocSize),
                  align |-> Alignment, is_stack |-> FALSE]>>,
     Result |-> MiriPointerTOGV(MiriPointerVal),
     MiriAllocas |-> Append(MiriAllocas, MiriPointerVal)]

\* Element counts and sizes whose product is 0, small, 2^32 - 1, 2^32 and
\* above.
AllocaCounts ==
    { NatBits(32, n) : n \in {0, 1, 3, 65536} } \cup
    { BitsAt(32, {31}), BitsAt(32, 0..31) } \cup
    { NatBits(64, n) : n \in {0, 2, 65536} } \cup
    { BitsAt(64, {32}), BitsAt(64, {0, 32}), BitsAt(64, {40}) }

AllocaSizes ==
    { NatBits(64, n) : n \in {0, 1, 4, 24, 65536} } \cup { BitsAt(64, {32}) }

AllocaInputs ==
    { [kind |-> "alloca", NumElements |-> n, TypeAllocSize |-> sz,
       Alignment |-> al, MiriAllocas |-> held] :
         n \in AllocaCounts, sz \in AllocaSizes, al \in {1, 8},
         held \in { <<>>, <<[addr |-> 16, prov |-> [alloc_id |-> 1, tag |-> 4]]>> } }

stepAlloca ==
    /\ pureIn \in AllocaInputs /\ pureOut = <<>>
    /\ \E MiriPointerVal \in
            { p \in GepPointers : p.prov # NULL_PROVENANCE /\ p.addr # 16 } :
          pureOut' = <<[ret |-> MiriPointerVal,
                        r |-> allocaInst(pureIn.NumElements,
                                  pureIn.TypeAllocSize, pureIn.Alignment,
                                  pureIn.MiriAllocas, MiriPointerVal)]>>
    /\ UNCHANGED <<Threads, CurrentThreadID, lastHooks, live, badFree, creates,
                   fatal, undefined, reverseDestroy, lastCall, MiriErrorFlag,
                   StackTrace, mem, running, pureIn, MiriWrapper,
                   emitGlobalsCalls>>

\* The second switch of getConstantExprValue, its integer opcodes: the
\* operands go to APInt as they are, a shift amount as getZExtValue gives it.
getConstantExprValue(Opcode, Op0, Op1) ==
    CASE Opcode = "add" -> BitsGV(APAdd(Op0.IntVal, Op1.IntVal))
      [] Opcode = "sub" -> BitsGV(APSub(Op0.IntVal, Op1.IntVal))
      [] Opcode = "mul" -> BitsGV(APMul(Op0.IntVal, Op1.IntVal))
      [] Opcode = "udiv" -> BitsGV(APudiv(Op0.IntVal, Op1.IntVal))
      [] Opcode = "urem" -> BitsGV(APurem(Op0.IntVal, Op1.IntVal))
      [] Opcode \in {"shl", "lshr", "ashr"} ->
            BitsGV(APShift(Opcode, Op0.IntVal, getZExtValue(Op1.IntVal)))

\* The instruction of the same opcode on the same operands.
instructionKernel(Opcode, Src1, Src2) ==
    IF Opcode \in {"shl", "lshr", "ashr"}
    THEN BitsGV(visitShift(Opcode, Src1, Src2, FALSE).IntVal)
    ELSE binaryOperator(Opcode, Src1, Src2)

\* The constant expressions that are folded.
ConstExprShiftWidths == {1, 8, 32}

ConstExprArithWidths == {3, 8}

ConstExprInputs ==
    UNION { { [kind |-> "constexpr", op |-> op,
               Op0 |-> BitsGV(x), Op1 |-> BitsGV(NatBits(w, s))] :
                 x \in { BitsAt(w, S) :
                            S \in { {0}, 0..(w - 1), {w - 1}, {0, w - 1} } },
                 s \in ShiftAmounts(w) }
          : op \in {"shl", "lshr", "ashr"}, w \in ConstExprShiftWidths }
    \cup
    UNION { { [kind |-> "constexpr", op |-> op,
               Op0 |-> BitsGV(a), Op1 |-> BitsGV(b)] :
                 a \in SampleBits(w),
                 b \in { c \in SampleBits(w) :
                            op \in {"udiv", "urem"} => c # BitsAt(w, {}) } }
          : op \in {"add", "sub", "mul", "udiv", "urem"},
            w \in ConstExprArithWidths }

\* A constant expression is folded, and the instruction of its opcode is
\* executed on the same operands.  A shift amount above the width aborts a
\* build with assertions.
stepConstantExpr ==
    /\ pureIn \in ConstExprInputs /\ pureOut = <<>>
    /\ \E aborts \in
            (IF /\ pureIn.op \in {"shl", "lshr", "ashr"}
                /\ getZExtValue(pureIn.Op1.IntVal) > Len(pureIn.Op0.IntVal)
             THEN BOOLEAN ELSE {FALSE}) :
          pureOut' = <<[Dest |-> getConstantExprValue(pureIn.op, pureIn.Op0,
                                                      pureIn.Op1),
                        Kernel |-> instructionKernel(pureIn.op, pureIn.Op0,
                                                     pureIn.Op1),
                        aborts |-> aborts]>>
    /\ UNCHANGED <<Threads, CurrentThreadID, lastHooks, live, badFree, creates,
                   fatal, undefined, reverseDestroy, lastCall, MiriErrorFlag,
                   StackTrace, mem, running, pureIn, MiriWrapper,
                   emitGlobalsCalls>>

-----------------------------------------------------------------------------
(* Integer compares on pointer operands. *)

\* The C++ operator each executeICMP_* hands to IMPLEMENT_POINTER_ICMP: the
\* signed predicates get the same operator as the unsigned ones.
pointerOperator(predicate) ==
    CASE predicate = "eq" -> "=="
      [] predicate = "ne" -> "!="
      [] predicate \in {"ult", "slt"} -> "<"
      [] predicate \in {"ugt", "sgt"} -> ">"
      [] predicate \in {"ule", "sle"} -> "<="
      [] predicate \in {"uge", "sge"} -> ">="

comparePointers(OP, a, b) ==
    CASE OP = "==" -> a = b
      [] OP = "!=" -> a # b
      [] OP = "<" -> a < b
      [] OP = ">" -> a > b
      [] OP = "<=" -> a <= b
      [] OP = ">=" -> a >= b

\* A compare of the operands as MiriPointers, provenance included.
executePointerICMPWithProvenance(predicate, Src1, Src2) ==
    [DefaultGV EXCEPT !.IntVal =
        <<IF /\ comparePointers(pointerOperator(predicate),
                                Src1.PointerVal, Src2.PointerVal)
             /\ (predicate = "eq" => Src1.Provenance = Src2.Provenance)
             \/ (predicate = "ne" /\ Src1.Provenance # Src2.Provenance)
          THEN 1 ELSE 0>>]

\* IMPLEMENT_POINTER_ICMP(OP):
\* Dest.IntVal = APInt(1, (void *)(intptr_t)Src1.PointerVal OP
\*                        (void *)(intptr_t)Src2.PointerVal)
executePointerICMP(predicate, Src1, Src2) ==
    [DefaultGV EXCEPT !.IntVal =
        <<IF comparePointers(pointerOperator(predicate),
                             Src1.PointerVal, Src2.PointerVal)
          THEN 1 ELSE 0>>]

ICmpPredicates ==
    {"eq", "ne", "ult", "slt", "ugt", "sgt", "ule", "sle", "uge", "sge"}

PointerICmpInputs ==
    { [kind |-> "picmp", predicate |-> pr, Src1 |-> p, Src2 |-> q] :
         pr \in ICmpPredicates, p \in PointerSamples, q \in PointerSamples }

\* visitICmpInst on two pointer operands.
stepPointerICmp ==
    /\ pureIn \in PointerICmpInputs /\ pureOut = <<>>
    /\ pureOut' = <<[Dest |-> executePointerICMP(pureIn.predicate,
                                                 pureIn.Src1, pureIn.Src2)]>>
    /\ UNCHANGED <<Threads, CurrentThreadID, lastHooks, live, badFree, creates,
                   fatal, undefined, reverseDestroy, lastCall, MiriErrorFlag,
                   StackTrace, mem, running, pureIn, MiriWrapper,
                   emitGlobalsCalls>>

-----------------------------------------------------------------------------
(* extractelement and insertelement.  Beside the result, the lanes of the
   vector operand an instruction touched are kept, in the order it touched
   them. *)

\* unsigned(Src.IntVal.getZExtValue()): the low 32 bits.
unsignedIndex(x) == ZExtRange(x, 1, IF Len(x) < 32 THEN Len(x) ELSE 32)

\* visitExtractElementInst, for an integer element type and the index indx:
\* the lane is read for its provenance ahead of the test of the index.
extractElement(Src1, indx) ==
    IF Len(Src1.AggregateVal) > indx
    THEN [fatal |-> FALSE,
          touched |-> <<indx, indx>>,
          Dest |-> [DefaultGV EXCEPT
                       !.Provenance = Src1.AggregateVal[indx + 1].Provenance,
                       !.IntVal = Src1.AggregateVal[indx + 1].IntVal]]
    ELSE [fatal |-> TRUE,
          touched |-> <<indx>>,
          Dest |-> DefaultGV]

visitExtractElementInst(Src1, Src2) ==
    extractElement(Src1, unsignedIndex(Src2.IntVal))

\* visitInsertElementInst, for an integer element type and the index indx.
insertElement(Src1, Src2, indx) ==
    IF Len(Src1.AggregateVal) <= indx
    THEN [fatal |-> TRUE, touched |-> <<>>,
          Dest |-> [DefaultGV EXCEPT !.AggregateVal = Src1.AggregateVal]]
    ELSE [fatal |-> FALSE, touched |-> <<indx>>,
          Dest |-> [DefaultGV EXCEPT
                       !.AggregateVal =
                           [Src1.AggregateVal EXCEPT
                               ![indx + 1].IntVal = Src2.IntVal]]]

visitInsertElementInst(Src1, Src2, Src3) ==
    insertElement(Src1, Src2, unsignedIndex(Src3.IntVal))

LaneGV(n, prov) == FullGV(NatBits(8, n), 0, prov, <<>>)

ElementVectors ==
    { AggGV(<<LaneGV(5, NULL_PROVENANCE)>>),
      AggGV(<<LaneGV(5, [alloc_id |-> 1, tag |-> 1]),
              LaneGV(6, NULL_PROVENANCE)>>),
      AggGV(<<LaneGV(1, NULL_PROVENANCE), LaneGV(2, [alloc_id |-> 2, tag |-> 5]),
              LaneGV(3, [alloc_id |-> 3, tag |-> 2])>>) }

\* Indices of type i8 and i64, among them 2^32 and 2^32 + 1.
ElementIndices ==
    { NatBits(8, n) : n \in 0..4 } \cup { NatBits(64, n) : n \in 0..3 }
    \cup { BitsAt(64, {32}), BitsAt(64, {0, 32}), BitsAt(64, {1, 40}) }

ElementInputs ==
    { [kind |-> "element", op |-> op, Src1 |-> v, elt |-> ByteGV(9),
       index |-> FullGV(x, 0, NULL_PROVENANCE, <<>>)] :
         op \in {"extractelement", "insertelement"},
         v \in ElementVectors, x \in ElementIndices }

elementInst(in) ==
    IF in.op = "extractelement"
    THEN visitExtractElementInst(in.Src1, in.index)
    ELSE visitInsertElementInst(in.Src1, in.elt, in.index)

\* One of the two instructions is executed.  A lane touched beyond the
\* vector's end is undefined: the instruction goes on as written, or the
\* process is stopped at the access.
stepElement ==
    /\ pureIn \in ElementInputs /\ pureOut = <<>>
    /\ \E crashed \in
            (IF \E i \in 1..Len(elementInst(pureIn).touched) :
                     elementInst(pureIn).touched[i]
                        >= Len(pureIn.Src1.AggregateVal)
             THEN BOOLEAN ELSE {FALSE}) :
          pureOut' = <<[r |-> elementInst(pureIn), crashed |-> crashed]>>
    /\ UNCHANGED <<Threads, CurrentThreadID, lastHooks, live, badFree, creates,
                   fatal, undefined, reverseDestroy, lastCall, MiriErrorFlag,
                   StackTrace, mem, running, pureIn, MiriWrapper,
                   emitGlobalsCalls>>

\* One instruction, its operands fixed at the start, is executed once.
InitPure ==
    /\ InitInterpreter
    /\ WrapperRegistered
    /\ CurrentThreadID = 0
    /\ ~reverseDestroy
    /\ pureIn \in ShiftInputs \cup ArithInputs \cup FCmpInputs
                  \cup BitCastInputs \cup PointerInputs
                  \cup GepInputs \cup FshInputs \cup PtrToIntInputs
                  \cup AllocaInputs \cup ConstExprInputs
                  \cup PointerICmpInputs \cup ElementInputs
    /\ pureOut = <<>>

NextPure ==
    \/ stepShift
    \/ stepBinaryOperator
    \/ stepFCmpInst
    \/ stepBitCast
    \/ stepPointerRoundTrip
    \/ stepGEP
    \/ stepFsh
    \/ stepPtrToInt
    \/ stepAlloca
    \/ stepConstantExpr
    \/ stepPointerICmp
    \/ stepElement

SpecPure == InitPure /\ [][NextPure]_vars

-----------------------------------------------------------------------------
(* Vocabulary of the properties *)

Top(T, t) == T[t].ECStack[Len(T[t].ECStack)]

Depth(T, t) == Len(T[t].ECStack)

HasFrames(T, t) == t \in DOMAIN T /\ T[t].ECStack # <<>>

\* Two Values agree in payload, width and provenance (the type stamp aside).
SameValue(a, b) ==
    /\ a.IntVal = b.IntVal
    /\ a.BitWidth = b.BitWidth
    /\ a.PointerVal = b.PointerVal
    /\ a.Provenance = b.Provenance

\* The step just taken was a stepThread call on t that came back to the driver.
SteppedBack(t) ==
    /\ lastCall'.op = "stepThread"
    /\ lastCall'.tid = t
    /\ lastCall'.returned

\* The instruction executed by the step just taken.
Executed == InstOf[lastCall'.inst]

FirstNonPhi(f, b) == InstAt(f, b, PhiCount(f, b) + 1)

\* The frame at depth d of thread t is, cursor and values, what it was.
FrameKept(t, d) == Threads'[t].ECStack[d] = Threads[t].ECStack[d]

-----------------------------------------------------------------------------
\* C1: after a call was handed to the oracle, the next stepThread with a
\* non-null pending value v comes back to the driver having executed the
\* instruction that follows the call (the first non-phi instruction of the
\* normal successor for an invoke); v is in the call's SSA slot unless the
\* call is void, and the flag and Caller are cleared again unless the
\* executed instruction is itself a call.
C1_PendingReturnDelivered ==
    [][\A t \in ThreadIDs :
        ( /\ lastCall'.op = "stepThread" /\ lastCall'.tid = t
          /\ HasFrames(Threads, t)
          /\ Top(Threads, t).MustResolvePendingReturn
          /\ lastCall'.pending # <<>> )
        => LET SF == Top(Threads, t)
               d == Depth(Threads, t)
               C == InstOf[SF.Caller]
               v == lastCall'.pending[1]
               following == IF C.op = "invoke"
                            THEN FirstNonPhi(SF.CurFunction, C.dests[1])
                            ELSE InstAt(SF.CurFunction, SF.CurBB, SF.CurInst)
           IN /\ ~fatal'
              /\ lastCall'.returned
              /\ lastCall'.inst = following.id
              /\ Depth(Threads', t) >= d =>
                   LET SF2 == Threads'[t].ECStack[d]
                   IN /\ IF C.ty = "void"
                         THEN C.id \notin DOMAIN SF2.Values
                         ELSE /\ C.id \in DOMAIN SF2.Values
                              /\ SF2.Values[C.id] = v
                      /\ following.op \notin {"call", "invoke"} =>
                           /\ ~SF2.MustResolvePendingReturn
                           /\ SF2.Caller = ""
    ]_vars

\* C1 witness: the value 42 delivered for the invoke of @ext reached the phi of
\* the normal successor and the following invoke was executed.
C1_Witness ==
    \E t \in DOMAIN Threads :
        /\ lastCall.op = "stepThread" /\ lastCall.inst = "v.y"
        /\ Depth(Threads, t) = 2
        /\ "v.x" \in DOMAIN Threads[t].ECStack[1].Values
        /\ Threads[t].ECStack[1].Values["v.x"].IntVal = 42
        /\ Threads[t].ECStack[1].Values["v.a"].IntVal = 42

\* C2: when the top frame does not await a return value, a non-null pending
\* value is fatal and a null one is accepted, the next instruction being
\* executed.
C2_NoPendingExpected ==
    [][\A t \in ThreadIDs :
        ( /\ lastCall'.op = "stepThread" /\ lastCall'.tid = t
          /\ HasFrames(Threads, t)
          /\ ~Top(Threads, t).MustResolvePendingReturn )
        => LET SF == Top(Threads, t)
           IN IF lastCall'.pending # <<>>
              THEN fatal' /\ ~lastCall'.returned
              ELSE /\ ~fatal'
                   /\ lastCall'.returned
                   /\ lastCall'.inst =
                        InstAt(SF.CurFunction, SF.CurBB, SF.CurInst).id
    ]_vars

\* C3: a null pending value while the top frame awaits one is fatal: the call
\* does not come back, executes no instruction, makes no hook call and leaves
\* every SSA map, cursor and exit value as it was.
C3_NullPendingFatal ==
    [][\A t \in ThreadIDs :
        ( /\ lastCall'.op = "stepThread" /\ lastCall'.tid = t
          /\ HasFrames(Threads, t)
          /\ Top(Threads, t).MustResolvePendingReturn
          /\ lastCall'.pending = <<>> )
        => /\ fatal'
           /\ ~lastCall'.returned
           /\ lastCall'.inst = ""
           /\ lastHooks' = <<>>
           /\ DOMAIN Threads' = DOMAIN Threads
           /\ \A u \in DOMAIN Threads :
                /\ Threads'[u].ExitValue = Threads[u].ExitValue
                /\ Depth(Threads', u) = Depth(Threads, u)
                /\ \A i \in 1..Depth(Threads, u) :
                     /\ Threads'[u].ECStack[i].Values = Threads[u].ECStack[i].Values
                     /\ Threads'[u].ECStack[i].CurBB = Threads[u].ECStack[i].CurBB
                     /\ Threads'[u].ECStack[i].CurInst = Threads[u].ECStack[i].CurInst
    ]_vars

\* C3 witness: the process died on a step with a null pending value while the
\* top frame, its cursor just past the call to @ext, awaited the value.
C3_Witness ==
    \E t \in DOMAIN Threads :
        /\ fatal
        /\ lastCall.op = "stepThread" /\ lastCall.tid = t /\ lastCall.pending = <<>>
        /\ HasFrames(Threads, t)
        /\ Top(Threads, t).Caller = "w.e"
        /\ Top(Threads, t).CurInst = 3
        /\ "w.e" \notin DOMAIN Top(Threads, t).Values


\* C4: a call or invoke whose callee operand carries provenance makes exactly
\* one hook call, call_by_pointer; a call to a declaration makes exactly one,
\* call_by_name; in both the stack depth is what it was and the calling frame
\* awaits the return value.  A call to a function with a body makes no hook
\* call, pushes one frame and sets no flag.
C4_CallHandOff ==
    [][\A t \in ThreadIDs :
        ( /\ SteppedBack(t)
          /\ HasFrames(Threads, t)
          /\ Executed.op \in {"call", "invoke"} )
        => LET I == Executed
               d == Depth(Threads, t)
               SF2 == Threads'[t].ECStack[d]
               SRC == getOperandValue(I.callee, SF2)
           IN IF SRC.Provenance.alloc_id # 0
              THEN /\ lastHooks' = <<HookCall("call_by_pointer",
                                              GVTOMiriPointer(SRC), "")>>
                   /\ Depth(Threads', t) = d
                   /\ SF2.MustResolvePendingReturn
              ELSE IF Module[I.callee.n].isDeclaration
              THEN /\ lastHooks' = <<HookCall("call_by_name", NoPtr, I.callee.n)>>
                   /\ Depth(Threads', t) = d
                   /\ SF2.MustResolvePendingReturn
              ELSE /\ lastHooks' = <<>>
                   /\ Depth(Threads', t) = d + 1
                   /\ ~SF2.MustResolvePendingReturn
                   /\ ~Top(Threads', t).MustResolvePendingReturn
    ]_vars

\* C4 witness: the call to the declaration @ext was just executed in @work.
C4_Witness ==
    \E t \in DOMAIN Threads :
        /\ lastCall.op = "stepThread" /\ lastCall.tid = t /\ lastCall.inst = "w.e"
        /\ Depth(Threads, t) = 1
        /\ Top(Threads, t).MustResolvePendingReturn
        /\ lastHooks = <<HookCall("call_by_name", NoPtr, "ext")>>

\* C5: ret pops exactly the top frame.  With a caller frame left, the
\* returned Value is in the SSA slot of the caller's recorded call (no slot is
\* written for a void call), the caller is at the normal successor when that
\* call is an invoke and where it was otherwise, and its Caller is cleared;
\* with no frame left the returned Value is in the thread's exit slot.
C5_Return ==
    [][\A t \in ThreadIDs :
        ( /\ SteppedBack(t)
          /\ HasFrames(Threads, t)
          /\ Executed.op = "ret" )
        => LET I == Executed
               d == Depth(Threads, t)
               Result == IF Len(I.ops) > 0
                         THEN getOperandValue(I.ops[1], Top(Threads, t))
                         ELSE GenericValue
           IN /\ Depth(Threads', t) = d - 1
              /\ \A i \in 1..(d - 2) : FrameKept(t, i)
              /\ d > 1 =>
                   LET F == Threads[t].ECStack[d - 1]
                       F2 == Threads'[t].ECStack[d - 1]
                       C == InstOf[F.Caller]
                   IN /\ F2.Caller = ""
                      /\ IF C.ty = "void"
                         THEN C.id \notin DOMAIN F2.Values
                         ELSE /\ C.id \in DOMAIN F2.Values
                              /\ SameValue(F2.Values[C.id], Result)
                      /\ \A n \in DOMAIN F.Values \ {C.id} :
                            /\ n \in DOMAIN F2.Values
                            /\ F2.Values[n] = F.Values[n]
                      /\ C.op # "invoke" =>
                            DOMAIN F2.Values \subseteq DOMAIN F.Values \cup {C.id}
                      /\ IF C.op = "invoke"
                         THEN /\ F2.CurBB = C.dests[1]
                              /\ F2.CurInst = PhiCount(F.CurFunction, C.dests[1]) + 1
                         ELSE /\ F2.CurBB = F.CurBB
                              /\ F2.CurInst = F.CurInst
              /\ (d = 1 /\ Len(I.ops) > 0) =>
                   SameValue(Threads'[t].ExitValue, Result)
    ]_vars

\* C5 witness: @retc returned 7 into the slot of the call in @work.
C5_Witness ==
    \E t \in DOMAIN Threads :
        /\ lastCall.op = "stepThread" /\ lastCall.tid = t
        /\ lastCall.inst = "retc.ret"
        /\ Depth(Threads, t) = 1
        /\ Top(Threads, t).CurFunction = "work"
        /\ Top(Threads, t).Caller = ""
        /\ Top(Threads, t).Values["w.r"].IntVal = 7

\* C6: stepThread returns whether the stepped thread's stack is empty; it
\* returns true exactly on the step whose ret pops the thread-entry frame,
\* the exit slot then holds the returned Value (5 of width 32 for @main) and
\* keeps it while the thread exists.
C6_StepResult ==
    [][\A t \in ThreadIDs :
        /\ ( SteppedBack(t) /\ HasFrames(Threads, t) )
           => /\ lastCall'.ret = (Threads'[t].ECStack = <<>>)
              /\ lastCall'.ret = (Executed.op = "ret" /\ Depth(Threads, t) = 1)
              /\ (lastCall'.ret /\ Len(Executed.ops) > 0)
                   => SameValue(Threads'[t].ExitValue,
                                getOperandValue(Executed.ops[1], Top(Threads, t)))
              /\ lastCall'.inst = "m.ret"
                   => /\ lastCall'.ret
                      /\ Threads'[t].ExitValue.IntVal = 5
                      /\ Threads'[t].ExitValue.BitWidth = 32
        /\ ( /\ t \in DOMAIN Threads /\ Threads[t].ECStack = <<>>
             /\ t \in DOMAIN Threads'
             /\ ~(lastCall'.op = "createThread" /\ lastCall'.tid = t)
             /\ ~undefined' )
           => Threads'[t].ExitValue = Threads[t].ExitValue
    ]_vars

\* C6 witness: @main finished, the step returned true and the exit slot holds
\* the i32 5.
C6_Witness ==
    \E t \in DOMAIN Threads :
        /\ lastCall.op = "stepThread" /\ lastCall.tid = t
        /\ lastCall.inst = "m.ret" /\ lastCall.ret
        /\ Threads[t].ECStack = <<>>
        /\ Threads[t].ExitValue.IntVal = 5
        /\ Threads[t].ExitValue.BitWidth = 32

\* The leading phis of block Dest of f hold, in frame F2, what their incoming
\* operands for predecessor PrevBB read in frame F.
PhisReadFrom(f, Dest, PrevBB, F, F2) ==
    /\ F2.CurBB = Dest
    /\ F2.CurInst >= PhiCount(f, Dest) + 1
    /\ \A i \in 1..PhiCount(f, Dest) :
          LET PN == InstAt(f, Dest, i)
          IN /\ PN.id \in DOMAIN F2.Values
             /\ SameValue(F2.Values[PN.id],
                          getOperandValue(IncomingValue(PN, PrevBB), F))

\* C7: whenever a step enters a basic block (by br, by a ret into an invoke,
\* or by the delivery of a pending value to an invoke) every leading phi of
\* the block holds the value its incoming operand had in the SSA map as it
\* was before the entry, and the cursor is past the phis.
C7_PhiAtomic ==
    [][\A t \in ThreadIDs :
        ( SteppedBack(t) /\ HasFrames(Threads, t) )
        => LET F == Top(Threads, t)
               d == Depth(Threads, t)
           IN /\ ( Executed.op = "br" /\ ~F.MustResolvePendingReturn )
                 => LET F2 == Top(Threads', t)
                    IN /\ F2.CurBB \in { Executed.dests[i] :
                                            i \in 1..Len(Executed.dests) }
                       /\ F2.CurInst = PhiCount(F.CurFunction, F2.CurBB) + 1
                       /\ PhisReadFrom(F.CurFunction, F2.CurBB, F.CurBB, F, F2)
              /\ ( /\ Executed.op = "ret" /\ d > 1
                   /\ ~F.MustResolvePendingReturn
                   /\ Threads[t].ECStack[d - 1].Caller # ""
                   /\ InstOf[Threads[t].ECStack[d - 1].Caller].op = "invoke" )
                 => LET G == Threads[t].ECStack[d - 1]
                        C == InstOf[G.Caller]
                        Result == IF Len(Executed.ops) > 0
                                  THEN getOperandValue(Executed.ops[1], F)
                                  ELSE GenericValue
                        Pre == IF C.ty # "void"
                               THEN SetValue(C.id, C.ty, Result, G)
                               ELSE G
                        F2 == Top(Threads', t)
                    IN /\ F2.CurInst = PhiCount(G.CurFunction, C.dests[1]) + 1
                       /\ PhisReadFrom(G.CurFunction, C.dests[1], G.CurBB,
                                       Pre, F2)
              /\ ( /\ F.MustResolvePendingReturn
                   /\ InstAt(F.CurFunction, F.CurBB, F.CurInst - 1).op = "invoke"
                   /\ Depth(Threads', t) >= d )
                 => LET C == InstAt(F.CurFunction, F.CurBB, F.CurInst - 1)
                        Pre == IF C.ty # "void"
                               THEN SetValue(C.id, C.ty, lastCall'.pending[1], F)
                               ELSE F
                    IN PhisReadFrom(F.CurFunction, C.dests[1], F.CurBB, Pre,
                                    Threads'[t].ECStack[d])
    ]_vars

\* C7 witness: the loop of @phis has taken its back edge; the phis that name
\* each other have swapped (p.a = 2, p.b = 1) and the counter phi holds 1.
C7_Witness ==
    \E t \in DOMAIN Threads :
        /\ lastCall.op = "stepThread" /\ lastCall.tid = t
        /\ lastCall.inst = "p.br1" /\ lastCall.returned
        /\ HasFrames(Threads, t)
        /\ Top(Threads, t).CurBB = 2
        /\ Top(Threads, t).CurInst = 4
        /\ Top(Threads, t).Values["p.a"].IntVal = 2
        /\ Top(Threads, t).Values["p.b"].IntVal = 1
        /\ Top(Threads, t).Values["p.n"].IntVal = 1

\* The oracle pointers held by the frames of all threads, with multiplicity.
RECURSIVE HeldInFrames(_)
HeldInFrames(ECStack) ==
    IF ECStack = <<>> THEN <<>>
    ELSE Head(ECStack).MiriAllocas \o HeldInFrames(Tail(ECStack))

RECURSIVE HeldInThreads(_)
HeldInThreads(ids) ==
    IF ids = {} THEN <<>>
    ELSE LET id == CHOOSE x \in ids : TRUE
         IN HeldInFrames(Threads[id].ECStack) \o HeldInThreads(ids \ {id})

Held == HeldInThreads(DOMAIN Threads)

\* C8: a pointer that malloc returned for an alloca is live at the oracle
\* exactly while a frame holds it, each such pointer is held by one frame
\* once, and the free hook never receives a pointer that is not live: so each
\* pointer is freed once, when its frame is popped or its thread removed, and
\* never again.
C8_FreedExactlyOnce ==
    /\ ~badFree
    /\ live = { Held[i] : i \in 1..Len(Held) }
    /\ Cardinality(live) = Len(Held)

\* C8 witness: @allocs made two allocations, its callee two more that its
\* ret freed; the ret of @allocs then freed the two pointers of the entry
\* frame, once each, and no pointer is live any more.
C8_Witness ==
    \E t \in DOMAIN Threads :
        /\ lastCall.op = "stepThread" /\ lastCall.tid = t
        /\ lastCall.inst = "a.ret"
        /\ Threads[t].ECStack = <<>>
        /\ Len(lastHooks) = 2
        /\ lastHooks[1].hook = "free" /\ lastHooks[2].hook = "free"
        /\ lastHooks[1].ptr # lastHooks[2].ptr
        /\ live = {}
        /\ ~badFree

\* The free hook calls for the pointers ps, last allocated first.
RECURSIVE FreesReversed(_)
FreesReversed(ps) ==
    IF ps = <<>> THEN <<>>
    ELSE <<HookCall("free", ps[Len(ps)], "")>>
         \o FreesReversed(SubSeq(ps, 1, Len(ps) - 1))

RECURSIVE FreesTopFirst(_)
FreesTopFirst(ECStack) ==
    IF ECStack = <<>> THEN <<>>
    ELSE FreesReversed(ECStack[Len(ECStack)].MiriAllocas)
         \o FreesTopFirst(SubSeq(ECStack, 1, Len(ECStack) - 1))

\* C9: the free hooks run in LIFO order: a ret frees the popped frame's
\* allocas last allocated first, and terminateThread releases the frames of
\* the thread top of stack first, each frame's allocas last allocated first.
C9_FreesLIFO ==
    [][\A t \in ThreadIDs :
        /\ ( SteppedBack(t) /\ HasFrames(Threads, t) /\ Executed.op = "ret" )
           => lastHooks' = FreesReversed(Top(Threads, t).MiriAllocas)
        /\ ( /\ lastCall'.op = "terminateThread" /\ lastCall'.tid = t
             /\ t \in DOMAIN Threads )
           => lastHooks' = FreesTopFirst(Threads[t].ECStack)
    ]_vars

\* C10: a stepThread call on thread A leaves every other thread as it was
\* (frames, cursors, SSA maps, flags, exit value) and removes none; a thread
\* whose entry function returns its argument ends with that argument in its
\* own exit slot.
C10_ThreadIsolation ==
    [][\A a \in ThreadIDs :
        ( lastCall'.op = "stepThread" /\ lastCall'.tid = a )
        => /\ DOMAIN Threads' = DOMAIN Threads
           /\ \A b \in DOMAIN Threads \ {a} : Threads'[b] = Threads[b]
           /\ ( /\ lastCall'.returned /\ lastCall'.inst = "retc.ret"
                /\ HasFrames(Threads, a) /\ Depth(Threads, a) = 1 )
              => /\ lastCall'.ret
                 /\ SameValue(Threads'[a].ExitValue, Threads[a].InitArgs[1])
    ]_vars

\* C10 witness: two threads ran @retc with 7 and with 9, interleaved by the
\* driver; each finished and holds its own value.
C10_Witness ==
    /\ DOMAIN Threads = {1, 2}
    /\ Threads[1].ECStack = <<>> /\ Threads[2].ECStack = <<>>
    /\ Threads[1].ExitValue.IntVal = 7
    /\ Threads[2].ExitValue.IntVal = 9
    /\ lastCall.op = "stepThread" /\ lastCall.tid = 1

\* C11: createThread leaves the current thread id as it was; the new thread
\* of a function with a body has exactly one frame, for that function, with
\* the cursor at the first instruction of the entry block, nothing executed,
\* no call outstanding, and each declared parameter bound to its argument.
C11_CreateThread ==
    [][\A t \in ThreadIDs :
        ( /\ lastCall'.op = "createThread" /\ lastCall'.tid = t /\ ~fatal'
          /\ Threads'[t].ECStack # <<>> )
        => LET T == Threads'[t]
               SF == T.ECStack[1]
               params == Module[SF.CurFunction].params
           IN /\ CurrentThreadID' = CurrentThreadID
              /\ Len(T.ECStack) = 1
              /\ ~Module[SF.CurFunction].isDeclaration
              /\ SF.CurBB = 1 /\ SF.CurInst = 1
              /\ SF.PreviousInst = "" /\ SF.Caller = ""
              /\ ~SF.MustResolvePendingReturn
              /\ SF.MiriAllocas = <<>>
              /\ lastHooks' = ExecutionThreadDtor(Threads, t, reverseDestroy)
              /\ \A i \in 1..Len(params) :
                    /\ params[i].n \in DOMAIN SF.Values
                    /\ SameValue(SF.Values[params[i].n], T.InitArgs[i])
    ]_vars

\* C11 witness: @work was just created with the argument 7 while the current
\* thread id names another thread.
C11_Witness ==
    \E t \in DOMAIN Threads :
        /\ lastCall.op = "createThread" /\ lastCall.tid = t
        /\ CurrentThreadID # t /\ CurrentThreadID \in DOMAIN Threads
        /\ Len(Threads[t].ECStack) = 1
        /\ Top(Threads, t).CurFunction = "work"
        /\ Top(Threads, t).CurInst = 1
        /\ Top(Threads, t).Values["w.p"].IntVal = 7

\* C12: createThread passes the entry function at most its declared number
\* of parameters: given more arguments than the function declares, the call
\* is not rejected, the extra arguments are not bound and are not kept as
\* varargs of the entry frame.
C12_ArgsTruncated ==
    [][\A t \in ThreadIDs :
        ( /\ lastCall'.op = "createThread" /\ lastCall'.tid = t
          /\ Threads'[t].ECStack # <<>>
          /\ Len(Threads'[t].InitArgs)
               > Len(Module[Threads'[t].ECStack[1].CurFunction].params) )
        => LET SF == Threads'[t].ECStack[1]
               params == Module[SF.CurFunction].params
           IN /\ ~fatal'
              /\ SF.VarArgs = <<>>
              /\ DOMAIN SF.Values = { params[i].n : i \in 1..Len(params) }
    ]_vars

\* C13: no thread exists at the start; hasThread(id) becomes true by
\* createThread(id), false by terminateThread(id) and is changed by no other
\* call; getThreadExitValueByID(id) is null exactly when hasThread(id) is
\* false; a finished thread keeps its exit value until it is terminated or
\* created anew.
C13_ThreadLifetime ==
    /\ \A id \in ThreadIDs : ~hasThread(id)
    /\ [][\A id \in ThreadIDs :
            LET created == lastCall'.op = "createThread" /\ lastCall'.tid = id
                removed == lastCall'.op = "terminateThread" /\ lastCall'.tid = id
            IN /\ created => hasThread(id)'
               /\ removed => ~hasThread(id)'
               /\ ~(created \/ removed) => (hasThread(id)' = hasThread(id))
               /\ (getThreadExitValueByID(id)' = <<>>) = ~hasThread(id)'
               /\ ( /\ hasThread(id) /\ Threads[id].ECStack = <<>>
                    /\ ~(created \/ removed) /\ ~undefined' )
                  => /\ getThreadExitValueByID(id)' # <<>>
                     /\ getThreadExitValueByID(id)'
                          = getThreadExitValueByID(id)
       ]_vars

\* C13 witness: thread 1 ran @retc to its end and its exit value 7 is still
\* there after thread 2 was created and terminated.
C13_Witness ==
    /\ lastCall.op = "terminateThread" /\ lastCall.tid = 2
    /\ creates = 2
    /\ hasThread(1) /\ ~hasThread(2)
    /\ Threads[1].ECStack = <<>>
    /\ getThreadExitValueByID(1) # <<>>
    /\ getThreadExitValueByID(1)[1].IntVal = 7
    /\ getThreadExitValueByID(2) = <<>>

\* C14: a load or store whose hook reports an error sets the error flag,
\* calls the recorder once, assigns nothing and leaves the frame stack as it
\* was but for the cursor; one whose hook reports success leaves the flag
\* alone, calls no recorder, and a load assigns the loaded value to its slot
\* (a store hands its value to the oracle).
C14_LoadStoreError ==
    [][\A t \in ThreadIDs :
        ( /\ SteppedBack(t) /\ HasFrames(Threads, t)
          /\ Executed.op \in {"load", "store"}
          /\ ~Top(Threads, t).MustResolvePendingReturn )
        => LET F == Top(Threads, t)
               d == Depth(Threads, t)
               h == lastHooks'[1]
           IN /\ h.hook = Executed.op
              /\ Depth(Threads', t) = d
              /\ \A i \in 1..(d - 1) : FrameKept(t, i)
              /\ Top(Threads', t)
                   = [Top(Threads', t) EXCEPT !.Values = F.Values,
                                              !.CurInst = F.CurInst + 1,
                                              !.PreviousInst = Executed.id]
                 \/ (~h.status /\ Executed.op = "load")
              /\ IF h.status
                 THEN /\ MiriErrorFlag'
                      /\ Len(RecorderCalls(lastHooks')) = 1
                      /\ Top(Threads', t).Values = F.Values
                      /\ mem' = mem
                 ELSE /\ MiriErrorFlag' = MiriErrorFlag
                      /\ RecorderCalls(lastHooks') = <<>>
                      /\ Executed.op = "load"
                           => /\ Executed.id \in DOMAIN Top(Threads', t).Values
                              /\ SameValue(Top(Threads', t).Values[Executed.id],
                                           h.val)
                              /\ h.ptr \in DOMAIN mem => h.val = mem[h.ptr]
                              /\ \A n \in DOMAIN F.Values \ {Executed.id} :
                                    Top(Threads', t).Values[n] = F.Values[n]
                      /\ Executed.op = "store"
                           => /\ mem'[h.ptr] = h.val
                              /\ SameValue(h.val,
                                     getOperandValue(Executed.ops[1], F))
    ]_vars

\* C14 witness: the load of @bad3, three frames deep, was refused by the
\* oracle: the flag is set, the recorder was called, the slot is unassigned.
C14_Witness ==
    \E t \in DOMAIN Threads :
        /\ lastCall.op = "stepThread" /\ lastCall.tid = t
        /\ lastCall.inst = "b3.ld"
        /\ Depth(Threads, t) = 3
        /\ MiriErrorFlag
        /\ Len(RecorderCalls(lastHooks)) = 1
        /\ lastHooks[1].hook = "load" /\ lastHooks[1].status
        /\ "b3.ld" \notin DOMAIN Top(Threads, t).Values

\* C15: after a step of thread t in which the oracle reported a memory
\* error, the next stepThread call on t does not advance t: its frames,
\* cursors and SSA maps stay as they were.
C15_NoAdvanceAfterError ==
    [][\A t \in ThreadIDs :
        ( /\ lastCall.op = "stepThread" /\ lastCall.tid = t
          /\ RecorderCalls(lastHooks) # <<>>
          /\ MiriErrorFlag
          /\ lastCall'.op = "stepThread" /\ lastCall'.tid = t
          /\ t \in DOMAIN Threads )
        => Threads'[t] = Threads[t]
    ]_vars

\* The locations of the Callers of the frames, top of stack first.
RECURSIVE CallersTopFirst(_)
CallersTopFirst(ECStack) ==
    IF ECStack = <<>> THEN <<>>
    ELSE (IF ECStack[Len(ECStack)].Caller # ""
          THEN getDebugLoc(ECStack[Len(ECStack)].Caller) ELSE <<>>)
         \o CallersTopFirst(SubSeq(ECStack, 1, Len(ECStack) - 1))

\* C17: the trace handed to the recorder on a memory error is the location
\* of the faulting instruction, when it has one, followed by the locations
\* of the Callers of the thread's frames from the top of the stack down.
C17_TraceOrder ==
    [][\A t \in ThreadIDs :
        ( /\ SteppedBack(t) /\ HasFrames(Threads, t)
          /\ RecorderCalls(lastHooks') # <<>> )
        => RecorderCalls(lastHooks')[1].trace
             = getDebugLoc(Executed.id) \o CallersTopFirst(Threads[t].ECStack)
    ]_vars

\* C16: inside run(), an instruction is executed exactly when the current
\* thread's stack is not empty; the loop goes on after it while the error
\* flag is clear, and once a step has left the flag set run() returns
\* without executing another instruction; it also returns on an empty stack.
C16_RunLoop ==
    [][(running /\ ~undefined') =>
        /\ lastCall'.op \in {"run", "runFunction"}
        /\ (lastCall'.op = "run")
             <=> ~stackIsEmpty(Threads[CurrentThreadID])
        /\ lastCall'.op = "runFunction"
             => /\ ~running'
                /\ Threads' = Threads
                /\ lastHooks' = <<>>
        /\ lastCall'.op = "run"
             => /\ running' = ~MiriErrorFlag'
                /\ lastCall'.inst
                     = InstAt(Top(Threads, CurrentThreadID).CurFunction,
                              Top(Threads, CurrentThreadID).CurBB,
                              Top(Threads, CurrentThreadID).CurInst).id
        /\ running' => (~MiriErrorFlag' /\ lastCall'.op = "run")
    ]_vars

\* C16 witness: run() has just left its loop on the error flag, three frames
\* deep, after the store the oracle refused.
C16_Witness ==
    /\ lastCall.op = "run" /\ lastCall.inst = "b3.st"
    /\ ~running
    /\ MiriErrorFlag
    /\ CurrentThreadID \in DOMAIN Threads
    /\ Depth(Threads, CurrentThreadID) = 3
    /\ Top(Threads, CurrentThreadID).CurInst = 2

\* The least power of two above n.
LeastPowerOfTwoAbove(n) ==
    CHOOSE p \in { 2 ^ k : k \in 0..30 } :
        /\ p > n
        /\ \A q \in { 2 ^ k : k \in 0..30 } : q > n => p <= q

\* The amount C18 names: s below the width, else s reduced modulo the least
\* power of two that is not below the width.
ClaimedShiftAmount(s, w) ==
    IF s < w THEN s ELSE s % LeastPowerOfTwoAbove(w - 1)

ShiftLaneAsClaimed(op, x, s, out) ==
    /\ out.amount = ClaimedShiftAmount(s, Len(x))
    /\ out.IntVal = APShift(op, x, ClaimedShiftAmount(s, Len(x)))
    /\ Len(out.IntVal) = Len(x)
    /\ (Len(x) = 32 /\ s = 33) => out.IntVal = APShift(op, x, 1)

\* C18: shl, lshr and ashr shift, a scalar and every lane of a vector, by s
\* when s is below the width w and by (NextPowerOf2(w-1) - 1) & s
\* otherwise; a 32-bit value shifted by 33 is the value shifted by 1.
C18_ShiftAmount ==
    (pureOut # <<>> /\ pureIn.kind = "shift")
    => /\ Len(Lanes(pureOut[1].Dest)) = Len(Lanes(pureIn.Src1))
       /\ \A i \in 1..Len(Lanes(pureIn.Src1)) :
             ShiftLaneAsClaimed(pureIn.op, Lanes(pureIn.Src1)[i].IntVal,
                                getZExtValue(Lanes(pureIn.Src2)[i].IntVal),
                                Lanes(pureOut[1].Dest)[i])

\* C18 witness: shl of the 32-bit value with bits 0 and 31 set by 33 gave
\* the value with bit 1 set, the shift by 1.
C18_Witness ==
    /\ pureOut # <<>> /\ pureIn.kind = "shift"
    /\ pureIn.op = "shl" /\ ~pureIn.vec
    /\ pureIn.Src1.IntVal = BitsAt(32, {0, 31})
    /\ getZExtValue(pureIn.Src2.IntVal) = 33
    /\ pureOut[1].Dest.amount = 1
    /\ pureOut[1].Dest.IntVal = BitsAt(32, {1})

\* C19: at the widths 1, 3, 7, 8, 33, 64 and 128, sub(add(a, b), b) is a,
\* and for b # 0 add(mul(udiv(a, b), b), urem(a, b)) is a; every result has
\* the width of the operands.
C19_AddSubDivRem ==
    (pureOut # <<>> /\ pureIn.kind = "arith")
    => /\ Len(pureIn.Src1.IntVal) \in ArithWidths
       /\ Len(pureOut[1].s.IntVal) = Len(pureIn.Src1.IntVal)
       /\ Len(pureOut[1].d.IntVal) = Len(pureIn.Src1.IntVal)
       /\ pureOut[1].d.IntVal = pureIn.Src1.IntVal
       /\ (\E i \in 1..Len(pureIn.Src2.IntVal) : pureIn.Src2.IntVal[i] = 1)
            => /\ pureOut[1].div # <<>>
               /\ pureOut[1].div[1].c.IntVal = pureIn.Src1.IntVal
               /\ Len(pureOut[1].div[1].q.IntVal) = Len(pureIn.Src1.IntVal)
               /\ Len(pureOut[1].div[1].r.IntVal) = Len(pureIn.Src1.IntVal)
               /\ Len(pureOut[1].div[1].c.IntVal) = Len(pureIn.Src1.IntVal)

\* C19 witness: at width 128, a = 2^128 - 1 and b = 6: the sum wrapped to 5,
\* the remainder is 3 and the quotient is not zero.
C19_Witness ==
    /\ pureOut # <<>> /\ pureIn.kind = "arith"
    /\ pureIn.Src1.IntVal = BitsAt(128, 0..127)
    /\ pureIn.Src2.IntVal = BitsAt(128, {1, 2})
    /\ pureOut[1].s.IntVal = BitsAt(128, {0, 2})
    /\ pureOut[1].div[1].r.IntVal = BitsAt(128, {0, 1})
    /\ pureOut[1].div[1].q.IntVal # BitsAt(128, {})

\* What a compare of two numbers yields, by the meaning of its predicate.
NumbersCompare(op, x, y) ==
    CASE op \in {"oeq", "ueq"} -> x.v = y.v
      [] op \in {"one", "une"} -> x.v # y.v
      [] op \in {"olt", "ult"} -> x.v < y.v
      [] op \in {"ole", "ule"} -> x.v <= y.v
      [] op \in {"ogt", "ugt"} -> x.v > y.v
      [] op \in {"oge", "uge"} -> x.v >= y.v
      [] op = "ord" -> TRUE
      [] op = "uno" -> FALSE

FCmpLaneAsClaimed(op, x, y, out) ==
    IF x.nan \/ y.nan
    THEN out.IntVal = (IF op \in OrderedPredicates THEN 0 ELSE 1)
    ELSE out.IntVal = (IF NumbersCompare(op, x, y) THEN 1 ELSE 0)

\* C20: a compare with a NaN operand yields false under every ordered
\* predicate and true under every unordered one, for a scalar and in each
\* lane of a vector by itself; a lane without NaN holds the compare of its
\* numbers.
C20_NaNCompare ==
    (pureOut # <<>> /\ pureIn.kind = "fcmp")
    => IF pureIn.vec
       THEN /\ Len(pureOut[1].AggregateVal) = Len(pureIn.Src1.AggregateVal)
            /\ \A i \in 1..Len(pureIn.Src1.AggregateVal) :
                  FCmpLaneAsClaimed(pureIn.op,
                                    pureIn.Src1.AggregateVal[i].DoubleVal,
                                    pureIn.Src2.AggregateVal[i].DoubleVal,
                                    pureOut[1].AggregateVal[i])
       ELSE FCmpLaneAsClaimed(pureIn.op, pureIn.Src1.DoubleVal,
                              pureIn.Src2.DoubleVal, pureOut[1])

\* C20 witness: fcmp one of <NaN, 0> with <2, 2> gave <false, true>.
C20_Witness ==
    /\ pureOut # <<>> /\ pureIn.kind = "fcmp"
    /\ pureIn.op = "one" /\ pureIn.vec
    /\ pureIn.Src1.AggregateVal = <<FloatGV(NaN), FloatGV(Num(0))>>
    /\ pureIn.Src2.AggregateVal = <<FloatGV(Num(2)), FloatGV(Num(2))>>
    /\ pureOut[1].AggregateVal = <<BoolGV(FALSE), BoolGV(TRUE)>>

-----------------------------------------------------------------------------
\* C21: on a little-endian target, bitcast <4 x i32> {0,1,2,3} to <2 x i64>
\* is {0x1_00000000, 0x3_00000002}; and for integer vectors of equal total
\* bit width, bitcast A -> B followed by bitcast B -> A gives back the lane
\* values, for narrowing and widening and for both endiannesses.
BitCastExample ==
    [kind |-> "bitcast",
     Src |-> VectorGV(<<BitsGV(NatBits(32, 0)), BitsGV(NatBits(32, 1)),
                        BitsGV(NatBits(32, 2)), BitsGV(NatBits(32, 3))>>),
     SrcBitSize |-> 32, DstBitSize |-> 64, isLittleEndian |-> TRUE]

C21_BitCastRoundTrip ==
    (pureIn \in BitCastInputs /\ pureOut # <<>>) =>
        /\ ~pureOut[1].d.fatal
        /\ pureIn = BitCastExample =>
              pureOut[1].d.Dest =
                  VectorGV(<<BitsGV(BitsAt(64, {32})),
                             BitsGV(BitsAt(64, {1, 32, 33}))>>)
        /\ pureOut[1].b # <<>>
        /\ ~pureOut[1].b[1].fatal
        /\ pureOut[1].b[1].Dest = pureIn.Src

-----------------------------------------------------------------------------
\* C22: for a pointer Value p, bitcast, insertvalue at an index path,
\* extractvalue at the same path and a final bitcast give a Value with p's
\* address and p's provenance (alloc_id and tag); insertvalue leaves every
\* other member of the aggregate as it was.
RECURSIVE SameButAt(_, _, _, _)
SameButAt(Old, New, Idxs, i) ==
    IF i > Len(Idxs) THEN TRUE
    ELSE /\ New.IntVal = Old.IntVal
         /\ New.PointerVal = Old.PointerVal
         /\ New.Provenance = Old.Provenance
         /\ Len(New.AggregateVal) = Len(Old.AggregateVal)
         /\ \A k \in 1..Len(Old.AggregateVal) :
               IF k = Idxs[i] + 1
               THEN SameButAt(Old.AggregateVal[k], New.AggregateVal[k],
                              Idxs, i + 1)
               ELSE New.AggregateVal[k] = Old.AggregateVal[k]

C22_ProvenanceRoundTrip ==
    (pureIn \in PointerInputs /\ pureOut # <<>>) =>
        /\ pureOut[1].r.PointerVal = pureIn.p.PointerVal
        /\ pureOut[1].r.Provenance.alloc_id = pureIn.p.Provenance.alloc_id
        /\ pureOut[1].r.Provenance.tag = pureIn.p.Provenance.tag
        /\ SameButAt(pureIn.Agg, pureOut[1].a, pureIn.Idxs, 1)

\* A pointer with provenance went through a nested path of an aggregate whose
\* other members hold other pointers.
C22_Witness ==
    /\ pureIn \in PointerInputs /\ pureOut # <<>>
    /\ pureIn.Idxs = <<1, 1>>
    /\ pureIn.p.Provenance = [alloc_id |-> 2, tag |-> 5]
    /\ pureIn.p.PointerVal = 24
    /\ pureOut[1].a # pureIn.Agg
    /\ pureOut[1].r = pureIn.p

-----------------------------------------------------------------------------
\* C23: the byte delta a getelementptr passes to the oracle's gep hook is the
\* sum over the index path of the field's layout offset (struct step) and of
\* stride x signed index (sequence step), a 32-bit index sign-extended;
\* gep i32, %p, i64 3 passes 12; and the instruction's result is the
\* pointer with provenance the oracle returns.
SignedIndex(IntVal) ==
    IF IntVal[Len(IntVal)] = 1
    THEN 0 - (getZExtValue([i \in 1..Len(IntVal) |-> 1 - IntVal[i]]) + 1)
    ELSE getZExtValue(IntVal)

RECURSIVE ClaimedDelta(_, _)
ClaimedDelta(Path, i) ==
    IF i > Len(Path) THEN 0
    ELSE (IF Path[i].isStruct THEN Path[i].ElementOffset
          ELSE Path[i].TypeAllocSize * SignedIndex(Path[i].IntVal))
         + ClaimedDelta(Path, i + 1)

-----------------------------------------------------------------------------
\* C29: fshl and fshr on three w-bit integers a, b, c concatenate a and b
\* into a 2w-bit value (a the high half), rotate it by c mod w, and take the
\* high w bits: the result has w bits, and the operand Values are as before.
ClaimedFsh(a, b, c, isLeft) ==
    SubSeq(IF isLeft THEN RotateLeft(b \o a, c % Len(a))
                     ELSE RotateRight(b \o a, c % Len(a)),
           Len(a) + 1, 2 * Len(a))

C29_FunnelShift ==
    (pureIn \in FshInputs /\ pureOut # <<>>) =>
        /\ Len(pureOut[1].Dest.IntVal) = Len(pureIn.Src1.IntVal)
        /\ pureOut[1].Dest.IntVal =
              ClaimedFsh(pureIn.Src1.IntVal, pureIn.Src2.IntVal,
                         getZExtValue(pureIn.Src3.IntVal), pureIn.isLeft)
        /\ pureOut[1].Src1 = pureIn.Src1
        /\ pureOut[1].Src2 = pureIn.Src2
        /\ pureOut[1].Src3 = pureIn.Src3

-----------------------------------------------------------------------------
\* C24: each stepThread executes exactly one instruction: after a step whose
\* instruction is neither a terminator nor a call that pushes a frame (the
\* intrinsics fshl, fshr, fabs and fmuladd among them) the cursor of the
\* frame points at the instruction that follows the executed one.
C24_OneInstruction ==
    [][\A t \in ThreadIDs :
        ( /\ SteppedBack(t) /\ HasFrames(Threads, t)
          /\ Executed.op \notin {"ret", "br", "invoke"}
          /\ Depth(Threads', t) = Depth(Threads, t) )
        => /\ Top(Threads', t).CurFunction = Top(Threads, t).CurFunction
           /\ Top(Threads', t).CurBB = Top(Threads, t).CurBB
           /\ Top(Threads', t).CurInst >= 2
           /\ Top(Threads', t).CurInst - 1
                <= BlockLen(Top(Threads', t).CurFunction,
                            Top(Threads', t).CurBB)
           /\ InstAt(Top(Threads', t).CurFunction, Top(Threads', t).CurBB,
                     Top(Threads', t).CurInst - 1).id = Executed.id
    ]_vars

-----------------------------------------------------------------------------
\* C25: ptrtoint gives an integer Value whose bit width is the width of the
\* destination integer type: the oracle's 64-bit ptr_to_int result
\* zero-extended or truncated to it (32 bits for i32, 128 for i128).
C25_PtrToIntWidth ==
    (pureIn \in PtrToIntInputs /\ pureOut # <<>>) =>
        /\ Len(pureOut[1].r.Dest.IntVal) = pureIn.DstTy
        /\ \A i \in 1..pureIn.DstTy :
              pureOut[1].r.Dest.IntVal[i] =
                 (IF i <= 64 THEN pureOut[1].SrcAsInt[i] ELSE 0)

-----------------------------------------------------------------------------
\* C26: alloca calls the oracle's malloc exactly once, with size
\* max(1, num_elements x element_alloc_size) for every count and size
\* (products beyond 32 bits included), the instruction's alignment and
\* is_stack = false; the returned pointer with provenance is the result and
\* is appended to the frame's oracle alloca holder.
C26_AllocaSize ==
    (pureIn \in AllocaInputs /\ pureOut # <<>>) =>
        /\ Len(pureOut[1].r.calls) = 1
        /\ pureOut[1].r.calls[1].hook = "malloc"
        /\ pureOut[1].r.calls[1].size =
              allocaMemToAllocWide(pureIn.NumElements, pureIn.TypeAllocSize)
        /\ pureOut[1].r.calls[1].align = pureIn.Alignment
        /\ pureOut[1].r.calls[1].is_stack = FALSE
        /\ pureOut[1].r.Result.PointerVal = pureOut[1].ret.addr
        /\ pureOut[1].r.Result.Provenance = pureOut[1].ret.prov
        /\ pureOut[1].r.MiriAllocas
              = Append(pureIn.MiriAllocas, pureOut[1].ret)

-----------------------------------------------------------------------------
\* C27: in a variadic frame at stack depth d with varargs v0..v(n-1),
\* va_start stores the pair (d-1, 0); the k-th va_arg on that va_list
\* (1 <= k <= n) returns v(k-1) taken from frame index d-1 and stores the
\* pair back with its second component one more; va_copy stores the source's
\* current pair to the destination, so the copy goes on from the same
\* argument index.
ListPointer(t, k) ==
    GVTOMiriPointer(getOperandValue(Executed.ops[k], Top(Threads, t)))

NoMiriError == RecorderCalls(lastHooks') = <<>>

C27_VarArgs ==
    [][\A t \in ThreadIDs :
        ( SteppedBack(t) /\ HasFrames(Threads, t) /\ NoMiriError )
        => /\ Executed.op = "va_start"
                => /\ ListPointer(t, 1) \in DOMAIN mem'
                   /\ mem'[ListPointer(t, 1)].UIntPairVal
                         = <<Depth(Threads, t) - 1, 0>>
           /\ Executed.op = "va_arg"
                => /\ SameValue(
                          Top(Threads', t).Values[Executed.id],
                          Threads[t].ECStack[
                              mem[ListPointer(t, 1)].UIntPairVal[1] + 1]
                            .VarArgs[mem[ListPointer(t, 1)].UIntPairVal[2] + 1])
                   /\ mem'[ListPointer(t, 1)].UIntPairVal
                         = <<mem[ListPointer(t, 1)].UIntPairVal[1],
                             mem[ListPointer(t, 1)].UIntPairVal[2] + 1>>
           /\ Executed.op = "va_copy"
                => /\ ListPointer(t, 1) \in DOMAIN mem'
                   /\ mem'[ListPointer(t, 1)].UIntPairVal
                         = mem[ListPointer(t, 2)].UIntPairVal
                   /\ mem'[ListPointer(t, 2)] = mem[ListPointer(t, 2)]
           \* @va called by @vcall with 2, 10, 20, 30: depth 2, varargs
           \* 10, 20, 30; the copy is made after the first va_arg
           /\ (Executed.id \in {"va.1", "va.2", "vu.1"}
               /\ Threads[t].ECStack[1].CurFunction = "vcall")
                => /\ mem[ListPointer(t, 1)].UIntPairVal[1] = 1
                   /\ Top(Threads', t).Values[Executed.id].IntVal
                         = (CASE Executed.id = "va.1" -> 10
                              [] Executed.id = "va.2" -> 20
                              [] Executed.id = "vu.1" -> 20)
    ]_vars

\* The copy of the list, made in @va at depth 2 after one argument was
\* taken, was read one frame further up: the second argument, 20, came out
\* of frame index 1 and the copy's pair went from (1, 1) to (1, 2).
C27_Witness ==
    \E t \in DOMAIN Threads :
        /\ lastCall.op = "stepThread" /\ lastCall.tid = t /\ lastCall.returned
        /\ lastCall.inst = "vu.1"
        /\ Len(Threads[t].ECStack) = 3
        /\ Threads[t].ECStack[1].CurFunction = "vcall"
        /\ Threads[t].ECStack[2].VarArgs
              = <<[IntGV(32, 10) EXCEPT !.ValueTy = "i32"],
                  [IntGV(32, 20) EXCEPT !.ValueTy = "i32"],
                  [IntGV(32, 30) EXCEPT !.ValueTy = "i32"]>>
        /\ Threads[t].ECStack[3].Values["vu.1"].IntVal = 20
        /\ \E p \in DOMAIN mem : mem[p].UIntPairVal = <<1, 2>>
        /\ ~MiriErrorFlag

-----------------------------------------------------------------------------
\* C28: a call to a function with a body pushes exactly one new frame, its
\* cursor at the first instruction of the callee's entry block, its SSA map
\* binding the i-th declared parameter to the i-th argument Value, its
\* varargs list holding the arguments beyond the declared count in call
\* order; the calling frame's Caller records the call instruction until the
\* callee returns.
CallsBody(I, SF) ==
    /\ I.op \in {"call", "invoke"}
    /\ getOperandValue(I.callee, SF).Provenance.alloc_id = 0
    /\ ~Module[FuncAt(GVTOP(getOperandValue(I.callee, SF)))].isDeclaration

CalleeOf(I, SF) == FuncAt(GVTOP(getOperandValue(I.callee, SF)))

FramePushedFor(I, F, CallerSF, New) ==
    /\ New.CurFunction = F
    /\ New.CurBB = 1 /\ New.CurInst = 1
    /\ DOMAIN New.Values = { Module[F].params[i].n :
                               i \in 1..Len(Module[F].params) }
    /\ \A i \in 1..Len(Module[F].params) :
          SameValue(New.Values[Module[F].params[i].n],
                    getOperandValue(I.ops[i], CallerSF))
    /\ Len(New.VarArgs) = Len(I.ops) - Len(Module[F].params)
    /\ \A j \in 1..Len(New.VarArgs) :
          SameValue(New.VarArgs[j],
                    getOperandValue(I.ops[Len(Module[F].params) + j],
                                    CallerSF))

C28_CallPushesFrame ==
    [][\A t \in ThreadIDs :
        ( SteppedBack(t) /\ HasFrames(Threads, t) )
        => /\ ( /\ Depth(Threads', t) >= Depth(Threads, t)
                /\ CallsBody(Executed, Threads'[t].ECStack[Depth(Threads, t)]) )
              => /\ Depth(Threads', t) = Depth(Threads, t) + 1
                 /\ FramePushedFor(Executed,
                        CalleeOf(Executed, Threads'[t].ECStack[Depth(Threads, t)]),
                        Threads'[t].ECStack[Depth(Threads, t)],
                        Top(Threads', t))
                 /\ Threads'[t].ECStack[Depth(Threads, t)].Caller = Executed.id
                 /\ \A d \in 1..(Depth(Threads, t) - 1) : FrameKept(t, d)
           /\ \A d \in 1..(Depth(Threads, t) - 1) :
                 /\ Threads[t].ECStack[d].Caller # ""
                 /\ Depth(Threads', t) > d
                       => Threads'[t].ECStack[d].Caller
                             = Threads[t].ECStack[d].Caller
    ]_vars

\* @vcall has just called @va with 2, 10, 20, 30: the new frame binds
\* %va.n to 2 and holds 10, 20, 30 as its varargs.
C28_Witness ==
    \E t \in DOMAIN Threads :
        /\ lastCall.op = "stepThread" /\ lastCall.tid = t
        /\ lastCall.inst = "vc.r"
        /\ Len(Threads[t].ECStack) = 2
        /\ Threads[t].ECStack[1].Caller = "vc.r"
        /\ Threads[t].ECStack[2].CurFunction = "va"
        /\ Threads[t].ECStack[2].CurInst = 1
        /\ Threads[t].ECStack[2].Values["va.n"].IntVal = 2
        /\ Len(Threads[t].ECStack[2].VarArgs) = 3
        /\ Threads[t].ECStack[2].VarArgs[1].IntVal = 10
        /\ Threads[t].ECStack[2].VarArgs[3].IntVal = 30

-----------------------------------------------------------------------------
\* C30: folding a constant expression yields the same Value as executing
\* the instruction of its opcode on the same operands; a constant-expression
\* shl, lshr or ashr with an amount not below the value width shifts by the
\* same masked amount as the instruction.
C30_ConstExprAsKernel ==
    (pureOut # <<>> /\ pureIn.kind = "constexpr")
    => /\ ~pureOut[1].aborts
       /\ pureOut[1].Dest = pureOut[1].Kernel
       /\ pureIn.op \in {"shl", "lshr", "ashr"}
             => pureOut[1].Dest.IntVal =
                   APShift(pureIn.op, pureIn.Op0.IntVal,
                           getShiftAmount(getZExtValue(pureIn.Op1.IntVal),
                                          Len(pureIn.Op0.IntVal)))

-----------------------------------------------------------------------------
\* C31: an integer compare on pointer operands depends only on the two
\* stored addresses: equal addresses compare eq, and not ne, ult, ugt, slt
\* or sgt, whatever the provenances; and the result of each of the ten
\* predicates is the result for the same two addresses under any other
\* provenances.
ProvenanceSamples == { p.Provenance : p \in PointerSamples }

C31_PointerCompare ==
    (pureOut # <<>> /\ pureIn.kind = "picmp")
    => /\ pureOut[1].Dest.IntVal \in {<<0>>, <<1>>}
       /\ pureIn.Src1.PointerVal = pureIn.Src2.PointerVal
             => pureOut[1].Dest.IntVal =
                   <<IF pureIn.predicate \in {"eq", "ule", "sle", "uge", "sge"}
                     THEN 1 ELSE 0>>
       /\ (pureIn.Src1.PointerVal # pureIn.Src2.PointerVal
             /\ pureIn.predicate \in {"eq", "ne"})
             => pureOut[1].Dest.IntVal =
                   <<IF pureIn.predicate = "ne" THEN 1 ELSE 0>>
       /\ \A p1 \in ProvenanceSamples, p2 \in ProvenanceSamples :
             executePointerICMP(pureIn.predicate,
                                PtrGV(pureIn.Src1.PointerVal, p1),
                                PtrGV(pureIn.Src2.PointerVal, p2))
                = pureOut[1].Dest

\* C31 witness: two pointers to address 16 with different provenances were
\* compared eq and the result is 1.
C31_Witness ==
    /\ pureOut # <<>> /\ pureIn.kind = "picmp"
    /\ pureIn.predicate = "eq"
    /\ pureIn.Src1.PointerVal = 16 /\ pureIn.Src2.PointerVal = 16
    /\ pureIn.Src1.Provenance = [alloc_id |-> 1, tag |-> 1]
    /\ pureIn.Src2.Provenance = [alloc_id |-> 2, tag |-> 5]
    /\ pureOut[1].Dest.IntVal = <<1>>

-----------------------------------------------------------------------------
\* C32: stepThread on a thread id that does not exist, or on a thread whose
\* frame stack is empty, is a fatal error, never a call that goes on
\* silently, and it changes no frame, SSA map or exit Value of any thread.
C32_EmptyStackFatal ==
    [][\A t \in ThreadIDs :
        ( /\ lastCall'.op = "stepThread" /\ lastCall'.tid = t
          /\ ~fatal /\ ~undefined
          /\ ~HasFrames(Threads, t) )
        => /\ fatal'
           /\ ~undefined'
           /\ Threads' = Threads
    ]_vars

-----------------------------------------------------------------------------
\* C33: between stepThread calls, MustResolvePendingReturn is set on at
\* most the top frame of a thread, and only when the instruction just
\* before that frame's cursor is the call or invoke that was handed to the
\* oracle; every frame below the top has a Caller, the call just before its
\* cursor, and that call created the frame above it.
BeforeCursor(SF) == InstAt(SF.CurFunction, SF.CurBB, SF.CurInst - 1)

HandedToOracle(I, SF) ==
    /\ I.op \in {"call", "invoke"}
    /\ \/ getOperandValue(I.callee, SF).Provenance.alloc_id # 0
       \/ Module[FuncAt(GVTOP(getOperandValue(I.callee, SF)))].isDeclaration

AwaitsItsCall(SF) ==
    /\ SF.CurInst > 1
    /\ HandedToOracle(BeforeCursor(SF), SF)
    /\ SF.Caller = BeforeCursor(SF).id

CalledTheFrameAbove(SF, Above) ==
    /\ SF.Caller # ""
    /\ SF.CurInst > 1
    /\ SF.Caller = BeforeCursor(SF).id
    /\ CallsBody(BeforeCursor(SF), SF)
    /\ CalleeOf(BeforeCursor(SF), SF) = Above.CurFunction

C33_PendingOnlyOnTop ==
    (~fatal /\ ~undefined /\ ~running)
    => \A t \in DOMAIN Threads :
          /\ \A d \in 1..(Depth(Threads, t) - 1) :
                /\ ~Threads[t].ECStack[d].MustResolvePendingReturn
                /\ CalledTheFrameAbove(Threads[t].ECStack[d],
                                       Threads[t].ECStack[d + 1])
          /\ (HasFrames(Threads, t)
                /\ Top(Threads, t).MustResolvePendingReturn)
                => AwaitsItsCall(Top(Threads, t))

\* C33 witness: a thread two frames deep whose top frame awaits the return
\* value of a call it handed to the oracle.
C33_Witness ==
    /\ ~fatal /\ ~undefined
    /\ \E t \in DOMAIN Threads :
          /\ Depth(Threads, t) >= 2
          /\ Top(Threads, t).MustResolvePendingReturn
          /\ AwaitsItsCall(Top(Threads, t))
          /\ ~Threads[t].ECStack[1].MustResolvePendingReturn
          /\ Threads[t].ECStack[1].Caller # ""

-----------------------------------------------------------------------------
\* C34: an oracle alloca is never freed while the frame that owns it is
\* still on its thread's stack: no call of the driver, whether it pushes a
\* frame at any depth, steps, or creates or terminates a thread, hands the
\* free hook a pointer that a frame still on a stack holds afterwards.
HeldInFrame(SF) == { SF.MiriAllocas[j] : j \in 1..Len(SF.MiriAllocas) }

HeldAfter ==
    UNION { UNION { HeldInFrame(Threads'[t].ECStack[d]) :
                       d \in 1..Depth(Threads', t) } :
            t \in DOMAIN Threads' }

C34_NoFreeWhileOnStack ==
    [][\A i \in 1..Len(lastHooks') :
          lastHooks'[i].hook = "free" => lastHooks'[i].ptr \notin HeldAfter
    ]_vars

\* C34 witness: @allocs called @leaf; the entry frame, now below the top,
\* still holds its two allocas, both live at the oracle, and the call freed
\* nothing.
C34_Witness ==
    \E t \in DOMAIN Threads :
        /\ lastCall.op = "stepThread" /\ lastCall.tid = t
        /\ lastCall.inst = "a.call"
        /\ Depth(Threads, t) = 2
        /\ Len(Threads[t].ECStack[1].MiriAllocas) = 2
        /\ \A j \in 1..2 : Threads[t].ECStack[1].MiriAllocas[j] \in live
        /\ lastHooks = <<>>
        /\ ~badFree

-----------------------------------------------------------------------------
\* C35: for every value width w >= 1 and every shift amount s, the amount
\* getShiftAmount computes is strictly less than w, so shl, lshr and ashr
\* never shift by the full width or more, at the widths 3, 7 and 33 too.
C35_ShiftBelowWidth ==
    (pureOut # <<>> /\ pureIn.kind = "shift")
    => \A i \in 1..Len(Lanes(pureOut[1].Dest)) :
          /\ Lanes(pureOut[1].Dest)[i].amount
                < Len(Lanes(pureIn.Src1)[i].IntVal)
          /\ ~pureOut[1].aborts

-----------------------------------------------------------------------------
\* C36: extractelement and insertelement never touch a lane at or beyond
\* the vector's length: an index that is not below the number of lanes is
\* reported as a fatal error before any element of the vector, value or
\* provenance, is read or written.
IndexBeyond(in) ==
    \/ \E i \in 33..Len(in.index.IntVal) : in.index.IntVal[i] = 1
    \/ unsignedIndex(in.index.IntVal) >= Len(in.Src1.AggregateVal)

C36_ElementInBounds ==
    (pureOut # <<>> /\ pureIn.kind = "element")
    => /\ \A i \in 1..Len(pureOut[1].r.touched) :
             pureOut[1].r.touched[i] < Len(pureIn.Src1.AggregateVal)
       /\ IndexBeyond(pureIn)
             => /\ pureOut[1].r.fatal
                /\ ~pureOut[1].crashed
                /\ pureOut[1].r.touched = <<>>

-----------------------------------------------------------------------------
\* C37: the trace passed to the recorder for an error holds only the
\* locations that belong to that error, the faulting instruction's and
\* those of the Callers of the thread's frames, each once and in whatever
\* order: entries recorded for an earlier error are not passed again.
LocationsIn(trace) == { trace[i] : i \in 1..Len(trace) }

OwnLocations(t) ==
    getDebugLoc(Executed.id) \o CallStackTrace(Threads[t].ECStack)

C37_TraceOfThisError ==
    [][\A t \in ThreadIDs :
        ( SteppedBack(t) /\ HasFrames(Threads, t) )
        => \A i \in 1..Len(RecorderCalls(lastHooks')) :
              /\ Len(RecorderCalls(lastHooks')[i].trace) = Len(OwnLocations(t))
              /\ LocationsIn(RecorderCalls(lastHooks')[i].trace)
                    = LocationsIn(OwnLocations(t))
    ]_vars

-----------------------------------------------------------------------------
\* C38: registering the oracle's wrapper emits the module's globals exactly
\* once, on the first registration, when no wrapper was set before;
\* registering a wrapper again replaces the wrapper pointer and emits no
\* globals a second time.
Registered(w) ==
    /\ lastCall'.op = "SetMiriInterpCxWrapper"
    /\ MiriWrapper' = w
    /\ <<MiriWrapper, emitGlobalsCalls, lastCall>>
          # <<MiriWrapper', emitGlobalsCalls', lastCall'>>

C38_GlobalsEmittedOnce ==
    [][/\ \A w \in Wrappers :
            Registered(w)
            => /\ MiriWrapper = 0 => emitGlobalsCalls' = emitGlobalsCalls + 1
               /\ MiriWrapper # 0 => emitGlobalsCalls' = emitGlobalsCalls
       /\ emitGlobalsCalls' = (IF MiriWrapper' = 0 THEN 0 ELSE 1)
       /\ emitGlobalsCalls' >= emitGlobalsCalls
    ]_vars

\* C38 witness: after threads were created under the first wrapper, the
\* second wrapper was registered: it is the wrapper now, and the globals
\* were emitted once.
C38_Witness ==
    /\ lastCall.op = "SetMiriInterpCxWrapper"
    /\ DOMAIN Threads # {}
    /\ MiriWrapper = 2
    /\ emitGlobalsCalls = 1

====
